---- MODULE Spec2Model ----
(***************************************************************************)
(* Model of the ethel frame-data pipeline:                                 *)
(*   - Boundary / Cross<Producer> / Cross<Consumer>  (state/cross.rs)      *)
(*   - SyncBarrier / SyncState                       (render/sync.rs)      *)
(*   - StorageSection                                (render/buffer/mod.rs)*)
(*   - ParallelIndexArrayColumn / SparseSlot         (state/data/*.rs)     *)
(*   - Layout                                  (render/buffer/layout.rs)   *)
(*   - PartitionedTriBuffer               (render/buffer/partitioned.rs)   *)
(* Rust vectors are modelled as sequences; the element at Rust index i is  *)
(* the element i + 1 of the sequence.                                      *)
(***************************************************************************)
EXTENDS Integers, Sequences, FiniteSets, TLC

\* ------------------------------------------------------------------ bounds
\* number of Producer.cross calls the logic thread makes
MaxFrames == 4
\* number of fence objects the render thread creates
MaxFences == 2
\* number of handles a column hands out (map grows to MaxHandles + 1 entries)
MaxHandles == 3
\* values stored in a column are 1..MaxVal (0 is T::default())
MaxVal == 2
\* element counts handed to Layout::partition are 1..MaxCount
MaxCount == 8
\* slices handed to blit_part hold 0..MaxSrc elements
MaxSrc == 3
\* number of blit_part / initialise_part calls made on the buffer
MaxOps == 1
\* capacity, in elements, of each of the three buffers of the TriBuffer
TriCapacity == 2
\* GpuCommandQueue::new(buffer_len) is called with buffer_len in 1..MaxCap
MaxCap == 4
\* number of commands pushed on the queue in one behaviour
MaxPush == 6
\* number of upload calls in a row, with no push, pop or clear in between
MaxUploads == 3
\* capacity of each buffer of the contiguous triple buffer
ContCapacity == 2
\* longest slice handed to Producer::write_at
MaxData == 3
\* largest offset handed to Producer::write_at
MaxOffset == 1
\* number of Producer::write_at calls
MaxWrites == 3
\* largest per-axis range handed to nearest_cell, and the largest distance
\* of a populated cell from the origin along x
MaxRange == 2
\* number of populated cells
MaxCells == 2

\* --------------------------------------------------------------- variables
VARIABLES
    \* Boundary
    working_section,   \* Boundary.working_section : AtomicU8
    locks,             \* Boundary.sync_cache.locks : AtomicU8
    storage,           \* Boundary.storage: per section index, the frame written
    \* SyncBarrier and the device's fence objects
    fences,            \* SyncBarrier.fences : [Option<fence>; 3], 0 is None
    barrierDropped,    \* TRUE once the SyncBarrier has been dropped
    fenceSt,           \* device state of each fence object
    delCount,          \* number of DeleteSync calls made on each fence
    nextFence,         \* next fence object the device hands out
    \* logic thread inside Producer.cross
    pc_p, psection, frame,
    crossed,           \* Producer.cross calls that wrote and advanced
    aborted,           \* Producer.cross calls that found the lock and returned
    \* render thread inside Consumer.cross
    pc_c, csection,
    \* ParallelIndexArrayColumn
    indices, contiguous, owners, free,
    panicked,          \* a column operation panicked
    issued,            \* <<handle, value>> returned by put and not freed since
    lastOp,            \* the last column operation, its argument, the column
                       \* it was called on, and the handle most recently
                       \* returned by put
    \* Layout under construction
    layout,            \* Layout { head, last, offsets, lengths }
    alignment,         \* GL_SHADER_STORAGE_BUFFER_OFFSET_ALIGNMENT
    calls,             \* <<size_of::<T>(), count>> of each partition call
    \* PartitionedTriBuffer
    memory,            \* the mapped bytes, address 0 is self.ptr
    written,           \* addresses the last buffer operation stored to
    ub,                \* a store went past the end of the mapping
    bufPanicked,       \* a buffer operation panicked
    bufOp,             \* the last buffer operation, its arguments and the
                       \* bytes it was called on
    bufOps,            \* number of buffer operations made
    srcRead,           \* elements the last blit read from its source slice
    returned,          \* the view the last view_* call returned, <<>> if none
    binds,             \* the GL binds the last bind_shader_storage issued
    \* TriBuffer
    triMem,            \* the elements of each of the three mapped buffers
    \* GpuCommandQueue
    queue,             \* GpuCommandQueue.queue : Vec<C>
    upload_head,       \* GpuCommandQueue.upload_head : AtomicUsize
    fixed_buffer_len,  \* GpuCommandQueue.fixed_buffer_len
    cmdBuffer,         \* the command buffer handed to upload
    qPanicked,         \* a queue operation panicked
    pushed,            \* number of commands pushed so far
    qOp,               \* the last queue operation, what it was called on and
                       \* what it returned
    uploads,           \* the upload calls made since the last push, pop or
                       \* clear
    \* State
    pc_s,              \* the logic thread's position in State::upload
    \* Contiguous triple buffer, its Producer and its Consumer
    intermediate_idx,  \* Contiguous.intermediate_idx : AtomicUsize
    tb_length,         \* Contiguous.length : AtomicUsize
    ptr,               \* the elements of the three buffers of Contiguous.ptr
    write_idx,         \* Producer.write_idx
    read_idx,          \* Consumer.read_idx
    pc_w,              \* the producer's position in write_at
    pc_r,              \* the consumer's position in read_at_for
    wcall,             \* data and offset of the write_at in progress
    slice,             \* <<the slice the consumer holds>>, <<>> if none
    tbPanicked,        \* write_at panicked
    tbUb,              \* a copy stored past the end of its buffer
    clobbered,         \* the producer stored into the buffer whose slice
                       \* (of at least one element) the consumer held
    writes,            \* number of write_at calls made
    tbOp,              \* the last write_at: its arguments, the buffers it
                       \* was called on, and whether it panicked
    \* FxSpatialHash
    hash_map,          \* FxSpatialHash.map : HashMap<Cell, T>
    hashOp,            \* the last call, its arguments, the map it was called
                       \* on and what it returned
    \* ArrayColumn and the row table of table_spec!
    variant            \* which type the column variables are the fields of

crossVars == <<working_section, locks, storage, fences, barrierDropped,
               fenceSt, delCount, nextFence, pc_p, psection, frame,
               crossed, aborted, pc_c, csection>>
columnVars == <<indices, contiguous, owners, free, panicked, issued, lastOp>>
layoutVars == <<layout, alignment, calls>>
bufferVars == <<memory, written, ub, bufPanicked, bufOp, bufOps, srcRead,
                returned, binds, triMem>>
queueVars == <<queue, upload_head, fixed_buffer_len, cmdBuffer, qPanicked,
               pushed, qOp, uploads, pc_s>>
tripleVars == <<intermediate_idx, tb_length, ptr, write_idx, read_idx, pc_w,
                pc_r, wcall, slice, tbPanicked, tbUb, clobbered, writes,
                tbOp>>
hashVars == <<hash_map, hashOp>>
extVars == <<tripleVars, hashVars, variant>>
baseVars == <<crossVars, columnVars, layoutVars, bufferVars, queueVars>>
otherThanTriple == <<baseVars, hashVars, variant>>
otherThanHash == <<baseVars, tripleVars, variant>>
otherThanColumn ==
    <<crossVars, layoutVars, bufferVars, queueVars, tripleVars, hashVars>>
vars == <<working_section, locks, storage, fences, barrierDropped,
          fenceSt, delCount, nextFence, pc_p, psection, frame,
          crossed, aborted, pc_c, csection,
          indices, contiguous, owners, free, panicked, issued, lastOp,
          layout, alignment, calls,
          memory, written, ub, bufPanicked, bufOp, bufOps, srcRead,
          returned, binds, triMem,
          queue, upload_head, fixed_buffer_len, cmdBuffer, qPanicked,
          pushed, qOp, uploads, pc_s, extVars>>

\* ---------------------------------------------------------- StorageSection
FRONT_BYTE == 1
BACK_BYTE == 8
SPARE_BYTE == 64

Front == FRONT_BYTE
Back == BACK_BYTE
Spare == SPARE_BYTE

Sections == {Front, Back, Spare}

\* StorageSection::from_byte (panics on any other byte)
from_byte(byte) ==
    CASE byte = FRONT_BYTE -> Front
      [] byte = BACK_BYTE -> Back
      [] byte = SPARE_BYTE -> Spare

\* a rotation that skips a section
next_skipping(s) ==
    CASE s = Front -> Spare
      [] s = Back -> Front
      [] s = Spare -> Back

\* StorageSection::next
next(s) ==
    CASE s = Front -> Back
      [] s = Back -> Spare
      [] s = Spare -> Front

\* StorageSection::as_index
as_index(s) ==
    CASE s = Front -> 0
      [] s = Back -> 1
      [] s = Spare -> 2

\* ------------------------------------------------------------ u8 bit logic
RECURSIVE BitAnd(_, _)
BitAnd(a, b) ==
    IF a = 0 \/ b = 0 THEN 0
    ELSE (a % 2) * (b % 2) + 2 * BitAnd(a \div 2, b \div 2)

RECURSIVE BitOr(_, _)
BitOr(a, b) ==
    IF a = 0 THEN b
    ELSE IF b = 0 THEN a
    ELSE ((a % 2) + (b % 2) - (a % 2) * (b % 2)) + 2 * BitOr(a \div 2, b \div 2)

\* --------------------------------------------------------------- SyncState
\* a lock test that compares the whole lock word with the tag
has_lock_whole_word(l, section) == l = section

\* SyncState::has_lock
has_lock(l, section) ==
    LET bit == section IN BitAnd(l, bit) = bit

\* ------------------------------------------------------------- SyncBarrier
\* a ClientWaitSync that never answers that the fence is signalled
PollSignalled_never(fs, fence) == FALSE

\* ClientWaitSync(fence, 0, 1) answers CONDITION_SATISFIED / ALREADY_SIGNALED
PollSignalled(fs, fence) == fs[fence] = "signalled"

\* the fence of slot i stays in its slot after fetch
FetchKeeps(fen, fs, i) == fen[i] # 0 /\ ~PollSignalled(fs, fen[i])

\* SyncBarrier::fetch, the fence table afterwards
FetchFences(fen, fs) ==
    [i \in 0..2 |-> IF FetchKeeps(fen, fs, i) THEN fen[i] ELSE 0]

\* SyncBarrier::fetch, the fences handed to DeleteSync
FetchDeleted(fen, fs) ==
    {fen[i] : i \in {j \in 0..2 : fen[j] # 0 /\ PollSignalled(fs, fen[j])}}

\* a fetch that sets the bit of every slot that held a fence
FetchBits_all_present(fen, fs) ==
    LET b0 == IF fen[0] # 0 THEN Front ELSE 0
        b1 == IF fen[1] # 0 THEN Back ELSE 0
        b2 == IF fen[2] # 0 THEN Spare ELSE 0
    IN BitOr(BitOr(BitOr(0, b0), b1), b2)

\* SyncBarrier::fetch, the byte stored into the SyncState
FetchBits(fen, fs) ==
    LET b0 == IF FetchKeeps(fen, fs, 0) THEN Front ELSE 0
        b1 == IF FetchKeeps(fen, fs, 1) THEN Back ELSE 0
        b2 == IF FetchKeeps(fen, fs, 2) THEN Spare ELSE 0
    IN BitOr(BitOr(BitOr(0, b0), b1), b2)

\* SyncBarrier::set, the fence table afterwards
SetFence(fen, index, fence) == [fen EXCEPT ![index] = fence]

\* ------------------------------------------------------------------ Layout
\* Layout<const PARTS: usize>: the number of parts of the layouts modelled
PARTS == 4
\* size_of::<T>() of the element types handed to partition, blit_part,
\* view_part and initialise_part
ElemSizes == {1, 4, 16}
\* values the device reports for GL_SHADER_STORAGE_BUFFER_OFFSET_ALIGNMENT
Alignments == {4, 16}

\* x & !m on usize
AndNot(x, m) == x - BitAnd(x, m)

\* u32::MAX, the shader binding of a part that has none. The model's
\* integers are 32 bits wide and signed: the same 32 bits read as -1.
U32_MAX == -1

\* Layout::new
layout_new ==
    [head |-> 0, last |-> 0,
     offsets |-> [i \in 0..(PARTS - 1) |-> 0],
     lengths |-> [i \in 0..(PARTS - 1) |-> 0],
     shader |-> [i \in 0..(PARTS - 1) |-> U32_MAX],
     panicked |-> FALSE]

\* partition that places the part at last, without aligning it
partition_unaligned(l, size, count, A) ==
    IF ~(l.head < PARTS) THEN [layout_new EXCEPT !.panicked = TRUE]
    ELSE LET length == size * count
             offset == l.last
         IN [l EXCEPT !.offsets[l.head] = offset,
                      !.lengths[l.head] = length,
                      !.last = length + offset,
                      !.head = l.head + 1]

\* partition that takes the element count for the length in bytes
partition_count_as_length(l, size, count, A) ==
    IF ~(l.head < PARTS) THEN [layout_new EXCEPT !.panicked = TRUE]
    ELSE LET length == count
             offset == AndNot(l.last + A - 1, A - 1)
         IN [l EXCEPT !.offsets[l.head] = offset,
                      !.lengths[l.head] = length,
                      !.last = length + offset,
                      !.head = l.head + 1]

\* Layout::partition::<T>(count) with size = size_of::<T>() and A the value
\* of GL_SHADER_STORAGE_BUFFER_OFFSET_ALIGNMENT. The builder is taken by
\* value: a failed assert drops it.
partition(l, size, count, A) ==
    IF ~(l.head < PARTS) THEN [layout_new EXCEPT !.panicked = TRUE]
    ELSE LET length == size * count
             offset == AndNot(l.last + A - 1, A - 1)
         IN [l EXCEPT !.offsets[l.head] = offset,
                      !.lengths[l.head] = length,
                      !.last = length + offset,
                      !.head = l.head + 1]

\* Layout::with_shader_storage(binding): the binding of the part added
\* last. With no part added yet head - 1 is no index of shader and the call
\* panics (on the subtraction or on the index); the builder is dropped.
with_shader_storage(l, binding) ==
    IF l.head = 0 THEN [layout_new EXCEPT !.panicked = TRUE]
    ELSE [l EXCEPT !.shader[l.head - 1] = binding]

\* ssbo_of that takes every entry of shader for a binding
ssbo_of_always(l, index) == <<l.shader[index]>>

\* Layout::ssbo_of: Some(binding) is <<binding>>, None is <<>>
ssbo_of(l, index) ==
    LET binding == l.shader[index]
    IN IF binding # U32_MAX THEN <<binding>> ELSE <<>>

\* Layout::offset_at
offset_at(l, index) == l.offsets[index]

\* Layout::length_at
length_at(l, index) == l.lengths[index]

\* janus::align_to_gl_ssbo: the body is in the janus crate; this is what the
\* documentation of Layout::len says of it, the value aligned up to the
\* shader-storage offset alignment
align_to_gl_ssbo(n, A) == AndNot(n + A - 1, A - 1)

\* Layout::len
layout_len(l, A) == align_to_gl_ssbo(l.last, A)

\* layout_buffer!::create, one part: partition, then with_shader_storage
\* if the part names a shader binding; part is <<size_of::<T>(), count>> or
\* <<size_of::<T>(), count, binding>>
create_part(l, part, A) ==
    IF Len(part) = 3
    THEN with_shader_storage(partition(l, part[1], part[2], A), part[3])
    ELSE partition(l, part[1], part[2], A)

\* layout_buffer!::create: the parts in order
RECURSIVE create(_, _)
create(parts, A) ==
    IF parts = <<>> THEN layout_new
    ELSE create_part(create(SubSeq(parts, 1, Len(parts) - 1), A),
                     parts[Len(parts)], A)

\* ---------------------------------------------------- PartitionedTriBuffer
\* the layout the buffer is created with: u32 * 4, f32 * 8 (shader 0),
\* Vec4 * 2 (shader 1), Vec4 * 2 on a device whose offset alignment is 16
BufferParts == <<<<4, 4>>, <<4, 8, 0>>, <<16, 2, 1>>, <<16, 2>>>>
BufferAlignment == 16
BufferLayout == create(BufferParts, BufferAlignment)

\* self.layout.len()
section_length == layout_len(BufferLayout, BufferAlignment)

\* PartitionedTriBuffer::new: the mapping holds 3 sections
BufferLen == 3 * section_length

Min(a, b) == IF a < b THEN a ELSE b

\* the object representation of a slice: element k (1-based) is a sequence
\* of size bytes, the slice is their concatenation
bytes_of(size, data) ==
    [b \in 1..(size * Len(data)) |->
        data[((b - 1) \div size) + 1][((b - 1) % size) + 1]]

\* the slice of len elements of size bytes read at address addr
slice_at(mem, addr, size, len) ==
    [k \in 1..len |-> [j \in 1..size |-> mem[addr + (k - 1) * size + j - 1]]]

\* the buffer as the operations see it
Buffer == [memory |-> memory, written |-> {}, ub |-> FALSE,
           panicked |-> FALSE, read |-> 0, returned |-> <<>>,
           binds |-> <<>>]

\* store bytes at address addr; a store past the end of the mapping is
\* undefined behaviour
store(b, addr, bytes) ==
    [b EXCEPT
       !.memory = [a \in DOMAIN b.memory |->
                     IF a >= addr /\ a < addr + Len(bytes)
                     THEN bytes[a - addr + 1] ELSE b.memory[a]],
       !.written = b.written \cup {addr + k - 1 : k \in 1..Len(bytes)},
       !.ub = b.ub \/ (Len(bytes) > 0 /\ addr + Len(bytes) > BufferLen)]

\* std::ptr::copy_nonoverlapping(src, dst, count) of elements of size bytes
copy_nonoverlapping(b, size, data, dst, count) ==
    [store(b, dst, SubSeq(bytes_of(size, data), 1, count * size))
        EXCEPT !.read = count]

\* blit_part that copies to the start of the section
blit_part_section_start(b, section, part, size, data) ==
    IF ~(section < 3) \/ ~(part < PARTS) THEN [b EXCEPT !.panicked = TRUE]
    ELSE LET base_offset == section * section_length
             data_len == Min(length_at(BufferLayout, part), Len(data))
         IN copy_nonoverlapping(b, size, data, base_offset, data_len)

\* PartitionedTriBuffer::blit_part::<T>(section, part, data) with
\* size = size_of::<T>(); data_len is the smaller of the part's length in
\* bytes and the slice's length in elements, and is used as a count of
\* elements
blit_part(b, section, part, size, data) ==
    IF ~(section < 3) \/ ~(part < PARTS) THEN [b EXCEPT !.panicked = TRUE]
    ELSE LET base_offset == section * section_length
             offset == offset_at(BufferLayout, part)
             data_len == Min(length_at(BufferLayout, part), Len(data))
         IN copy_nonoverlapping(b, size, data, base_offset + offset, data_len)

\* view_part that reads from the start of the section
view_part_section_start(mem, section, part, size) ==
    LET base_offset == section * section_length
        length == length_at(BufferLayout, part)
        len == length \div size
    IN slice_at(mem, base_offset, size, len)

\* PartitionedTriBuffer::view_part::<T>(section, part).as_slice() with
\* size = size_of::<T>(), for section < 3 and part < PARTS
view_part(mem, section, part, size) ==
    LET base_offset == section * section_length
        offset == offset_at(BufferLayout, part)
        length == length_at(BufferLayout, part)
        len == length \div size
    IN slice_at(mem, base_offset + offset, size, len)

\* glClearNamedBufferSubData(buffer, R32UI, offset, size, RED_INTEGER,
\* UNSIGNED_INT, null): the range is filled with zeros; the device rejects
\* (GL_INVALID_VALUE, nothing is written) an offset or size that is not a
\* multiple of the 4 bytes of R32UI or a range that leaves the buffer
ClearNamedBufferSubData(b, offset, size) ==
    IF offset % 4 # 0 \/ size % 4 # 0 \/ offset + size > BufferLen THEN b
    ELSE store(b, offset, [k \in 1..size |-> 0])

\* the Zero arm of initialise_part, sections i..2
RECURSIVE zero_sections(_, _, _, _)
zero_sections(b, i, offset, len) ==
    IF i > 2 THEN b
    ELSE zero_sections(
             ClearNamedBufferSubData(b, section_length * i + offset, len),
             i + 1, offset, len)

\* the FillWith arm of initialise_part, sections i..2: ptr is a *mut T, so
\* ptr.add(n) is n * size bytes further
RECURSIVE fill_sections(_, _, _, _, _)
fill_sections(b, i, size, len, value) ==
    IF i > 2 THEN b
    ELSE fill_sections(
             store(b, section_length * i * size,
                   bytes_of(size, [k \in 1..len |-> value])),
             i + 1, size, len, value)

\* PartitionedTriBuffer::initialise_part::<T, F>(part, strategy) with
\* size = size_of::<T>() and value what the factory of FillWith returns
initialise_part(b, part, strategy, size, value) ==
    IF ~(part < PARTS) THEN [b EXCEPT !.panicked = TRUE]
    ELSE LET len == length_at(BufferLayout, part)
             offset == offset_at(BufferLayout, part)
         IN IF strategy = "Zero"
            THEN zero_sections(b, 0, offset, len)
            ELSE fill_sections(b, 0, size, len \div size, value)

\* blit_section without its assert
blit_section_unchecked(b, section, data) ==
    LET section_len == section_length
        data_len == Min(section_len, Len(data))
        offset == section * section_len
    IN copy_nonoverlapping(b, 1, data, offset, data_len)

\* PartitionedTriBuffer::blit_section(section, data), data a slice of bytes
blit_section(b, section, data) ==
    IF ~(section < 3) THEN [b EXCEPT !.panicked = TRUE]
    ELSE LET section_len == section_length
             data_len == Min(section_len, Len(data))
             offset == section * section_len
         IN copy_nonoverlapping(b, 1, data, offset, data_len)

\* the View or ViewMut of len elements of size bytes at byte offset of the
\* mapping
ViewOf(offset, len, size) == <<offset, len, size>>

\* PartitionedTriBuffer::view_section(section): the View returned
view_section(b, section) ==
    IF ~(section < 3) THEN [b EXCEPT !.panicked = TRUE]
    ELSE LET length == section_length
             offset == section * length
         IN [b EXCEPT !.returned = ViewOf(offset, length, 1)]

\* PartitionedTriBuffer::view_section_mut(section): the ViewMut returned
view_section_mut(b, section) ==
    IF ~(section < 3) THEN [b EXCEPT !.panicked = TRUE]
    ELSE LET length == section_length
             offset == section * length
         IN [b EXCEPT !.returned = ViewOf(offset, length, 1)]

\* PartitionedTriBuffer::view_part::<T>(section, part) with its asserts: the
\* View returned
view_part_at(b, section, part, size) ==
    IF ~(section < 3) \/ ~(part < PARTS) THEN [b EXCEPT !.panicked = TRUE]
    ELSE LET base_offset == section * section_length
             offset == offset_at(BufferLayout, part)
             length == length_at(BufferLayout, part)
             len == length \div size
         IN [b EXCEPT !.returned = ViewOf(base_offset + offset, len, size)]

\* PartitionedTriBuffer::view_part_mut::<T>(section, part): the ViewMut
\* returned
view_part_mut(b, section, part, size) ==
    IF ~(section < 3) \/ ~(part < PARTS) THEN [b EXCEPT !.panicked = TRUE]
    ELSE LET base_offset == section * section_length
             offset == offset_at(BufferLayout, part)
             length == length_at(BufferLayout, part)
             len == length \div size
         IN [b EXCEPT !.returned = ViewOf(base_offset + offset, len, size)]

\* glBindBufferRange(SHADER_STORAGE_BUFFER, binding, buffer, offset, size)
BindBufferRange(binding, offset, size) ==
    [binding |-> binding, offset |-> offset, length |-> size]

\* the loop of bind_shader_storage over the parts part..PARTS-1 of layout l
RECURSIVE bind_parts(_, _, _)
bind_parts(l, base_offset, part) ==
    IF part >= PARTS THEN <<>>
    ELSE (IF ssbo_of(l, part) # <<>>
          THEN <<BindBufferRange(ssbo_of(l, part)[1],
                                 base_offset + offset_at(l, part),
                                 length_at(l, part))>>
          ELSE <<>>)
         \o bind_parts(l, base_offset, part + 1)

\* the range binds PartitionedTriBuffer::bind_shader_storage(section) issues
\* for a buffer of layout l on a device of alignment A, section < 3
bind_ranges(l, A, section) == bind_parts(l, layout_len(l, A) * section, 0)

\* PartitionedTriBuffer::bind_shader_storage(section) of a buffer of layout
\* l on a device of alignment A
bind_shader_storage(b, l, A, section) ==
    IF ~(section < 3) THEN [b EXCEPT !.panicked = TRUE]
    ELSE [b EXCEPT !.binds = bind_ranges(l, A, section)]

\* ---------------------------------------------------------------- TriBuffer
\* the TriBuffer as its operations see it
Tri == [mem |-> triMem, written |-> {}, ub |-> FALSE, panicked |-> FALSE,
        read |-> 0, returned |-> <<>>, binds |-> <<>>]

\* the View or ViewMut of len elements at self.ptr[section]
TriViewOf(section, len) == <<section, len>>

\* element k (1-based) of buffer section, as a member of written
TriElem(section, k) == section * TriCapacity + k - 1

\* blit_section that copies no more than the slice holds
tri_blit_section_min(t, section, data) ==
    IF ~(section < 3) THEN [t EXCEPT !.panicked = TRUE]
    ELSE LET len == Min(TriCapacity, Len(data))
         IN [t EXCEPT
               !.mem[section] = [k \in 1..TriCapacity |->
                                   IF k <= len THEN data[k]
                                   ELSE t.mem[section][k]],
               !.written = {TriElem(section, k) : k \in 1..len},
               !.read = len]

\* TriBuffer::blit_section(section, data): capacity elements are copied
\* whatever the length of data; reading past the end of data is undefined
\* behaviour, <<-1>> is an element read from there
tri_blit_section(t, section, data) ==
    IF ~(section < 3) THEN [t EXCEPT !.panicked = TRUE]
    ELSE LET len == TriCapacity
         IN [t EXCEPT
               !.mem[section] = [k \in 1..len |->
                                   IF k <= Len(data) THEN data[k] ELSE <<-1>>],
               !.written = {TriElem(section, k) : k \in 1..len},
               !.read = len,
               !.ub = len > Len(data)]

\* TriBuffer::view_section(section): the View returned
tri_view_section(t, section) ==
    IF ~(section < 3) THEN [t EXCEPT !.panicked = TRUE]
    ELSE [t EXCEPT !.returned = TriViewOf(section, TriCapacity)]

\* TriBuffer::view_section_mut(section): the ViewMut returned
tri_view_section_mut(t, section) ==
    IF ~(section < 3) THEN [t EXCEPT !.panicked = TRUE]
    ELSE [t EXCEPT !.returned = TriViewOf(section, TriCapacity)]

\* glBindBufferBase(SHADER_STORAGE_BUFFER, index, gl_obj[section])
BindBufferBase(index, section) == [binding |-> index, object |-> section]

\* TriBuffer::bind_shader_storage(section, ssbo_index)
tri_bind_shader_storage(t, section, ssbo_index) ==
    IF ~(section < 3) THEN [t EXCEPT !.panicked = TRUE]
    ELSE [t EXCEPT !.binds = <<BindBufferBase(ssbo_index, section)>>]

\* ---------------------------------------------------------- GpuCommandQueue
\* Result<(), usize>
Ok == [ok |-> TRUE, err |-> 0]
Err(n) == [ok |-> FALSE, err |-> n]

\* the queue as its operations see it
CommandQueue == [queue |-> queue, upload_head |-> upload_head,
                 fixed_buffer_len |-> fixed_buffer_len, panicked |-> FALSE]

\* GpuCommandQueue::new
queue_new(buffer_len) ==
    [queue |-> <<>>, upload_head |-> 0, fixed_buffer_len |-> buffer_len,
     panicked |-> FALSE]

\* a clear that leaves the upload head where it was
clear_queue_only(q) == [q EXCEPT !.queue = <<>>]

\* GpuCommandQueue::clear
clear(q) == [q EXCEPT !.upload_head = 0, !.queue = <<>>]

\* GpuCommandQueue::pop (the command returned is dropped)
pop(q) ==
    IF q.queue = <<>> THEN q
    ELSE [q EXCEPT !.queue = SubSeq(q.queue, 1, Len(q.queue) - 1)]

\* GpuCommandQueue::push
push(q, command) == [q EXCEPT !.queue = Append(q.queue, command)]

\* for j in head..upload_size { buffer[i] = self.queue[j]; i += 1; } from
\* j on; an index past the end of the queue or of the buffer panics
RECURSIVE upload_loop(_, _, _, _, _)
upload_loop(q, buffer, j, upload_size, i) ==
    IF j >= upload_size THEN [buffer |-> buffer, i |-> i, panicked |-> FALSE]
    ELSE IF j >= Len(q.queue) \/ i >= Len(buffer)
    THEN [buffer |-> buffer, i |-> i, panicked |-> TRUE]
    ELSE upload_loop(q, [buffer EXCEPT ![i + 1] = q.queue[j + 1]],
                     j + 1, upload_size, i + 1)

\* what upload leaves behind: the queue, the buffer, the number of commands
\* copied and the value returned
Uploaded(q, buffer, i, ret) ==
    [q |-> q, buffer |-> buffer, copied |-> i, ret |-> ret]

\* upload that reports the commands that were left before the copy
upload_err_remaining(q, buffer, overflow_checks) ==
    LET count == Len(q.queue)
        head == q.upload_head
    IN IF count < head
       THEN Uploaded([q EXCEPT !.panicked = TRUE], buffer, 0, Ok)
       ELSE LET upload_size == Min(count - head, q.fixed_buffer_len)
                loop == upload_loop(q, buffer, head, upload_size, 0)
                new_head == head + loop.i
            IN Uploaded([q EXCEPT !.upload_head = new_head], loop.buffer,
                        loop.i,
                        IF count - head # 0 THEN Err(count - head) ELSE Ok)

\* upload whose loop copies queue[head .. head + upload_size]
upload_from_head(q, buffer, overflow_checks) ==
    LET count == Len(q.queue)
        head == q.upload_head
    IN IF count < head
       THEN Uploaded([q EXCEPT !.panicked = TRUE], buffer, 0, Ok)
       ELSE LET upload_size == Min(count - head, q.fixed_buffer_len)
                loop == upload_loop(q, buffer, head, head + upload_size, 0)
                new_head == head + loop.i
                exceed == IF count > new_head THEN count - new_head ELSE 0
            IN Uploaded([q EXCEPT !.upload_head = new_head], loop.buffer,
                        loop.i, IF exceed # 0 THEN Err(exceed) ELSE Ok)

\* GpuCommandQueue::upload(buffer). count - head on usize: with head > count
\* a build with overflow checks panics and a build without wraps to a value
\* above every buffer length, so min() yields fixed_buffer_len. The loop
\* runs over head..upload_size.
upload(q, buffer, overflow_checks) ==
    LET count == Len(q.queue)
        head == q.upload_head
    IN IF count < head /\ overflow_checks
       THEN Uploaded([q EXCEPT !.panicked = TRUE], buffer, 0, Ok)
       ELSE LET upload_size == IF count < head THEN q.fixed_buffer_len
                               ELSE Min(count - head, q.fixed_buffer_len)
                loop == upload_loop(q, buffer, head, upload_size, 0)
                new_head == head + loop.i
                exceed == IF count > new_head THEN count - new_head ELSE 0
            IN IF loop.panicked
               THEN Uploaded([q EXCEPT !.panicked = TRUE], loop.buffer,
                             loop.i, Ok)
               ELSE Uploaded([q EXCEPT !.upload_head = new_head],
                             loop.buffer, loop.i,
                             IF exceed # 0 THEN Err(exceed) ELSE Ok)

\* ------------------------------------------------------------------- Init
InitCross ==
    /\ working_section = Spare
    /\ locks = 0
    /\ storage = [i \in 0..2 |-> 0]
    /\ fences = [i \in 0..2 |-> 0]
    /\ barrierDropped = FALSE
    /\ fenceSt = [f \in 1..MaxFences |-> "unused"]
    /\ delCount = [f \in 1..MaxFences |-> 0]
    /\ nextFence = 1
    /\ pc_p = "idle"
    /\ psection = Spare
    /\ frame = 0
    /\ crossed = 0
    /\ aborted = 0
    /\ pc_c = "idle"
    /\ csection = Spare

InitColumn ==
    /\ indices = <<0>>
    /\ contiguous = <<0>>
    /\ owners = <<0>>
    /\ free = <<>>
    /\ panicked = FALSE
    /\ issued = {}
    /\ lastOp = [op |-> "none", h |-> 0, v |-> 0, recent |-> 0,
                 wasLast |-> FALSE, wasLive |-> FALSE, wasRecent |-> FALSE,
                 wasFreed |-> FALSE,
                 before |-> [indices |-> <<0>>, contiguous |-> <<0>>,
                             owners |-> <<0>>, free |-> <<>>,
                             panicked |-> FALSE]]

InitLayout ==
    /\ layout = layout_new
    /\ alignment \in Alignments
    /\ calls = <<>>

InitBuffer ==
    \* NamedBufferStorage(.., null, ..) leaves the contents undefined: -1 is
    \* a byte nothing was stored to yet
    /\ memory = [a \in 0..(BufferLen - 1) |-> -1]
    /\ written = {}
    /\ ub = FALSE
    /\ bufPanicked = FALSE
    /\ bufOp = [op |-> "none", section |-> 0, part |-> 0, size |-> 1,
                data |-> <<>>, strategy |-> "none", before |-> <<>>,
                beforeTri |-> <<>>, layout |-> BufferLayout]
    /\ bufOps = 0
    /\ srcRead = 0
    /\ returned = <<>>
    /\ binds = <<>>
    \* TriBuffer::new(TriCapacity, InitStrategy::Zero) of one-byte elements
    /\ triMem = [i \in 0..2 |-> [k \in 1..TriCapacity |-> <<0>>]]

InitQueue ==
    \* State holds GpuCommandQueue::default() until main replaces it
    /\ queue = <<>>
    /\ upload_head = 0
    /\ fixed_buffer_len = 0
    /\ cmdBuffer = <<>>
    /\ qPanicked = FALSE
    /\ pushed = 0
    /\ qOp = [op |-> "none", prev |-> "none", head |-> 0, queue |-> <<>>,
              buffer |-> <<>>, copied |-> 0, ret |-> Ok]
    /\ uploads = <<>>
    /\ pc_s = "idle"

InitTriple ==
    \* create_contiguous(ContCapacity) of a type whose default is 0
    /\ intermediate_idx = 1
    /\ tb_length = 0
    /\ ptr = [i \in 0..2 |-> [k \in 1..ContCapacity |-> 0]]
    /\ write_idx = 0
    /\ read_idx = 2
    /\ pc_w = "idle"
    /\ pc_r = "idle"
    /\ wcall = <<>>
    /\ slice = <<>>
    /\ tbPanicked = FALSE
    /\ tbUb = FALSE
    /\ clobbered = FALSE
    /\ writes = 0
    /\ tbOp = [op |-> "none"]

InitHash ==
    \* FxSpatialHash::default()
    /\ hash_map = <<>>
    /\ hashOp = [op |-> "none"]

InitVariant ==
    \* the column of State is a ParallelIndexArrayColumn
    variant = "ParallelIndexArrayColumn"

InitExt == InitTriple /\ InitHash /\ InitVariant

Init ==
    InitCross /\ InitColumn /\ InitLayout /\ InitBuffer /\ InitQueue /\ InitExt

\* --------------------------------------------------------- Producer.cross
\* let section = self.boundary.current_section().next();
ProducerLoad ==
    /\ pc_p = "idle"
    /\ frame < MaxFrames
    /\ frame' = frame + 1
    /\ psection' = next(from_byte(working_section))
    /\ pc_p' = "check"
    /\ UNCHANGED <<working_section, locks, storage, fences, barrierDropped,
                   fenceSt, delCount, nextFence, pc_c, csection, crossed, aborted>>
    /\ UNCHANGED <<columnVars, layoutVars, bufferVars,
                   queueVars, extVars>>

\* if !self.boundary.sync_cache().has_lock(section) { ... }
ProducerCheck ==
    /\ pc_p = "check"
    /\ pc_p' = IF has_lock(locks, psection) THEN "idle" ELSE "write"
    /\ aborted' = IF has_lock(locks, psection) THEN aborted + 1 ELSE aborted
    /\ UNCHANGED <<working_section, locks, storage, fences, barrierDropped,
                   fenceSt, delCount, nextFence, psection, frame,
                   pc_c, csection, crossed>>
    /\ UNCHANGED <<columnVars, layoutVars, bufferVars,
                   queueVars, extVars>>

\* op(section, self.boundary.storage());
ProducerOp ==
    /\ pc_p = "write"
    /\ storage' = [storage EXCEPT ![as_index(psection)] = frame]
    /\ pc_p' = "advance"
    /\ UNCHANGED <<working_section, locks, fences, barrierDropped,
                   fenceSt, delCount, nextFence, psection, frame,
                   pc_c, csection, crossed, aborted>>
    /\ UNCHANGED <<columnVars, layoutVars, bufferVars,
                   queueVars, extVars>>

\* an advance that moves current two sections on
advance_section_twice(byte) == next(next(from_byte(byte)))

\* Boundary::advance_section
advance_section(byte) == next(from_byte(byte))

\* self.boundary.advance_section();
ProducerAdvance ==
    /\ pc_p = "advance"
    /\ working_section' = advance_section(working_section)
    /\ crossed' = crossed + 1
    /\ pc_p' = "idle"
    /\ UNCHANGED <<locks, storage, fences, barrierDropped,
                   fenceSt, delCount, nextFence, psection, frame,
                   pc_c, csection, aborted>>
    /\ UNCHANGED <<columnVars, layoutVars, bufferVars,
                   queueVars, extVars>>

\* --------------------------------------------------------- Consumer.cross
\* let section = self.boundary.current_section();
ConsumerLoad ==
    /\ pc_c = "idle"
    /\ csection' = from_byte(working_section)
    /\ pc_c' = "sync1"
    /\ UNCHANGED <<working_section, locks, storage, fences, barrierDropped,
                   fenceSt, delCount, nextFence, pc_p, psection, frame, crossed, aborted>>
    /\ UNCHANGED <<columnVars, layoutVars, bufferVars,
                   queueVars, extVars>>

\* Boundary::sync, i.e. barrier.fetch(&self.sync_cache)
Sync ==
    /\ fences' = FetchFences(fences, fenceSt)
    /\ delCount' = [f \in 1..MaxFences |->
                      IF f \in FetchDeleted(fences, fenceSt)
                      THEN delCount[f] + 1 ELSE delCount[f]]
    /\ locks' = FetchBits(fences, fenceSt)

\* self.boundary.sync(barrier);   (before op)
ConsumerSyncBefore ==
    /\ pc_c = "sync1"
    /\ Sync
    /\ pc_c' = "op"
    /\ UNCHANGED <<working_section, storage, barrierDropped, fenceSt,
                   nextFence, pc_p, psection, frame, csection, crossed, aborted>>
    /\ UNCHANGED <<columnVars, layoutVars, bufferVars,
                   queueVars, extVars>>

\* op(section, self.boundary.storage());  the render frame reads the section
\* and may place a fence for it with barrier.set(section.as_index(), fence)
ConsumerOp ==
    /\ pc_c = "op"
    /\ \E install \in BOOLEAN :
         IF install
         THEN /\ nextFence <= MaxFences
              /\ fences' = SetFence(fences, as_index(csection), nextFence)
              /\ fenceSt' = [fenceSt EXCEPT ![nextFence] = "pending"]
              /\ nextFence' = nextFence + 1
         ELSE UNCHANGED <<fences, fenceSt, nextFence>>
    /\ pc_c' = "sync2"
    /\ UNCHANGED <<working_section, locks, storage, barrierDropped,
                   delCount, pc_p, psection, frame, csection, crossed, aborted>>
    /\ UNCHANGED <<columnVars, layoutVars, bufferVars,
                   queueVars, extVars>>

\* self.boundary.sync(barrier);   (after op)
ConsumerSyncAfter ==
    /\ pc_c = "sync2"
    /\ Sync
    /\ pc_c' = "idle"
    /\ UNCHANGED <<working_section, storage, barrierDropped, fenceSt,
                   nextFence, pc_p, psection, frame, csection, crossed, aborted>>
    /\ UNCHANGED <<columnVars, layoutVars, bufferVars,
                   queueVars, extVars>>

\* impl Drop for SyncBarrier: DeleteSync on every fence still in the table
BarrierDrop ==
    /\ pc_c = "idle"
    /\ ~barrierDropped
    /\ barrierDropped' = TRUE
    /\ pc_c' = "dropped"
    /\ delCount' = [f \in 1..MaxFences |->
                      IF \E i \in 0..2 : fences[i] = f
                      THEN delCount[f] + 1 ELSE delCount[f]]
    /\ UNCHANGED <<working_section, locks, storage, fences, fenceSt,
                   nextFence, pc_p, psection, frame, csection, crossed, aborted>>
    /\ UNCHANGED <<columnVars, layoutVars, bufferVars,
                   queueVars, extVars>>

\* the device finishes the commands a fence was placed after
GpuSignal ==
    /\ \E f \in 1..MaxFences :
         /\ fenceSt[f] = "pending"
         /\ delCount[f] = 0
         /\ fenceSt' = [fenceSt EXCEPT ![f] = "signalled"]
    /\ UNCHANGED <<working_section, locks, storage, fences, barrierDropped,
                   delCount, nextFence, pc_p, psection, frame, pc_c, csection, crossed, aborted>>
    /\ UNCHANGED <<columnVars, layoutVars, bufferVars,
                   queueVars, extVars>>

Next ==
    \/ ProducerLoad
    \/ ProducerCheck
    \/ ProducerOp
    \/ ProducerAdvance
    \/ ConsumerLoad
    \/ ConsumerSyncBefore
    \/ ConsumerOp
    \/ ConsumerSyncAfter
    \/ BarrierDrop
    \/ GpuSignal

Spec == Init /\ [][Next]_vars

\* ---------------------------------------------------------- Renderer::draw
\* the closure Renderer::draw hands to Consumer.cross: it binds the mesh
\* buffer and the section of the scene buffer, views the section of the
\* command buffer and dispatches; it makes no fence and does not call
\* barrier.set
RendererDrawOp ==
    /\ pc_c = "op"
    /\ pc_c' = "sync2"
    /\ UNCHANGED <<working_section, locks, storage, fences, barrierDropped,
                   fenceSt, delCount, nextFence, pc_p, psection, frame,
                   csection, crossed, aborted>>
    /\ UNCHANGED <<columnVars, layoutVars, bufferVars,
                   queueVars, extVars>>

\* the logic thread's Producer.cross and the render thread's draw
NextRenderer ==
    \/ ProducerLoad
    \/ ProducerCheck
    \/ ProducerOp
    \/ ProducerAdvance
    \/ ConsumerLoad
    \/ ConsumerSyncBefore
    \/ RendererDrawOp
    \/ ConsumerSyncAfter
    \/ BarrierDrop

SpecRenderer == Init /\ [][NextRenderer]_vars

\* ------------------------------------------------------------ Vec helpers
\* v[i] of a Rust Vec
At(v, i) == v[i + 1]

\* v[i] = x
SetAt(v, i, x) == [v EXCEPT ![i + 1] = x]

\* Vec::swap_remove(i) for i < v.len()
swap_remove(v, i) ==
    SubSeq([v EXCEPT ![i + 1] = v[Len(v)]], 1, Len(v) - 1)

\* --------------------------------------------- ParallelIndexArrayColumn
\* the column as one value
Column == [indices |-> indices, contiguous |-> contiguous,
           owners |-> owners, free |-> free, panicked |-> panicked]

\* a free that reads the last owner only after the swap-remove
free_patch_after_remove(c, slot) ==
    IF slot = 0 THEN [c EXCEPT !.panicked = TRUE]
    ELSE IF slot >= Len(c.indices) THEN [c EXCEPT !.panicked = TRUE]
    ELSE LET contiguous_slot == At(c.indices, slot) IN
         IF contiguous_slot = 0 THEN c
         ELSE IF contiguous_slot >= Len(c.owners)
              THEN [c EXCEPT !.indices = SetAt(c.indices, slot, 0),
                             !.panicked = TRUE]
              ELSE LET cleared == SetAt(c.indices, slot, 0)
                       removed == swap_remove(c.owners, contiguous_slot)
                       last_owner == removed[Len(removed)]
                   IN [c EXCEPT
                         !.indices = SetAt(cleared, last_owner, contiguous_slot),
                         !.owners = removed,
                         !.contiguous = swap_remove(c.contiguous, contiguous_slot),
                         !.free = Append(c.free, slot)]

\* a free that swap-removes without patching the moved element's map entry
free_without_patch(c, slot) ==
    IF slot = 0 THEN [c EXCEPT !.panicked = TRUE]
    ELSE IF slot >= Len(c.indices) THEN [c EXCEPT !.panicked = TRUE]
    ELSE LET contiguous_slot == At(c.indices, slot) IN
         IF contiguous_slot = 0 THEN c
         ELSE IF contiguous_slot >= Len(c.owners)
              THEN [c EXCEPT !.indices = SetAt(c.indices, slot, 0),
                             !.panicked = TRUE]
              ELSE [c EXCEPT
                      !.indices = SetAt(c.indices, slot, 0),
                      !.owners = swap_remove(c.owners, contiguous_slot),
                      !.contiguous = swap_remove(c.contiguous, contiguous_slot),
                      !.free = Append(c.free, slot)]

\* a free without the check for the reserved slot 0
free_no_zero_check(c, slot) ==
    IF slot >= Len(c.indices) THEN [c EXCEPT !.panicked = TRUE]
    ELSE LET contiguous_slot == At(c.indices, slot) IN
         IF contiguous_slot = 0 THEN c
         ELSE LET cleared == SetAt(c.indices, slot, 0)
                  last_owner == c.owners[Len(c.owners)]
                  patched == SetAt(cleared, last_owner, contiguous_slot)
              IN IF contiguous_slot >= Len(c.owners)
                 THEN [c EXCEPT !.indices = patched, !.panicked = TRUE]
                 ELSE [c EXCEPT
                         !.indices = patched,
                         !.owners = swap_remove(c.owners, contiguous_slot),
                         !.contiguous = swap_remove(c.contiguous, contiguous_slot),
                         !.free = Append(c.free, slot)]

\* a free that swap-removes the owner array but not the dense array
free_owner_only(c, slot) ==
    IF slot = 0 THEN [c EXCEPT !.panicked = TRUE]
    ELSE IF slot >= Len(c.indices) THEN [c EXCEPT !.panicked = TRUE]
    ELSE LET contiguous_slot == At(c.indices, slot) IN
         IF contiguous_slot = 0 THEN c
         ELSE LET cleared == SetAt(c.indices, slot, 0)
                  last_owner == c.owners[Len(c.owners)]
                  patched == SetAt(cleared, last_owner, contiguous_slot)
              IN IF contiguous_slot >= Len(c.owners)
                 THEN [c EXCEPT !.indices = patched, !.panicked = TRUE]
                 ELSE [c EXCEPT
                         !.indices = patched,
                         !.owners = swap_remove(c.owners, contiguous_slot),
                         !.free = Append(c.free, slot)]

\* <ParallelIndexArrayColumn as Column>::free; the column it leaves behind
column_free(c, slot) ==
    IF slot = 0 THEN [c EXCEPT !.panicked = TRUE]
    ELSE IF slot >= Len(c.indices) THEN [c EXCEPT !.panicked = TRUE]
    ELSE LET contiguous_slot == At(c.indices, slot) IN
         IF contiguous_slot = 0 THEN c
         ELSE LET cleared == SetAt(c.indices, slot, 0)
                  last_owner == c.owners[Len(c.owners)]
                  patched == SetAt(cleared, last_owner, contiguous_slot)
              IN IF contiguous_slot >= Len(c.owners)
                 \* owners.swap_remove panics, the map is already rewritten
                 THEN [c EXCEPT !.indices = patched, !.panicked = TRUE]
                 ELSE [c EXCEPT
                         !.indices = patched,
                         !.owners = swap_remove(c.owners, contiguous_slot),
                         !.contiguous = swap_remove(c.contiguous, contiguous_slot),
                         !.free = Append(c.free, slot)]

\* a slot allocation whose fresh handle is off by one
next_slot_index_off_by_one(c) ==
    IF Len(c.free) > 0 THEN c.free[Len(c.free)] ELSE Len(c.indices) - 1

\* a slot allocation that hands out the oldest freed handle
next_slot_index_oldest(c) ==
    IF Len(c.free) > 0 THEN c.free[1] ELSE Len(c.indices)

\* SparseSlot::next_slot_index, the handle it returns
next_slot_index(c) ==
    IF Len(c.free) > 0 THEN c.free[Len(c.free)] ELSE Len(c.indices)

\* SparseSlot::next_slot_index, the column it leaves behind
next_slot_column(c) ==
    IF Len(c.free) > 0
    THEN [c EXCEPT !.free = SubSeq(c.free, 1, Len(c.free) - 1)]
    ELSE [c EXCEPT !.indices = Append(c.indices, 0)]

\* <ParallelIndexArrayColumn as Column>::put; the column it leaves behind
column_put(c, value) ==
    LET index == next_slot_index(c)
        c1 == next_slot_column(c)
        slot == Len(c1.contiguous)
    IN [c1 EXCEPT !.indices = SetAt(c1.indices, index, slot),
                  !.contiguous = Append(c1.contiguous, value),
                  !.owners = Append(c1.owners, index)]

\* the column variables take the value of c
Becomes(c) ==
    /\ indices' = c.indices
    /\ contiguous' = c.contiguous
    /\ owners' = c.owners
    /\ free' = c.free
    /\ panicked' = c.panicked

\* column.put(value)
Put ==
    /\ ~panicked
    /\ Len(free) > 0 \/ Len(indices) <= MaxHandles
    /\ \E value \in 1..MaxVal :
         /\ Becomes(column_put(Column, value))
         /\ issued' = issued \cup {<<next_slot_index(Column), value>>}
         /\ lastOp' = [op |-> "put", h |-> next_slot_index(Column),
                       v |-> value,
                       recent |-> next_slot_index(Column),
                       wasLast |-> FALSE, wasLive |-> FALSE,
                       wasRecent |-> FALSE, wasFreed |-> FALSE,
                       before |-> Column]
    /\ UNCHANGED <<crossVars, layoutVars, bufferVars,
                   queueVars, extVars>>

\* column.free(slot), for every u32 the caller may pass: 0, a handle of the
\* map (live or freed) or a value past the end of the map
Free ==
    /\ ~panicked
    /\ \E slot \in 0..Len(indices) :
         /\ Becomes(column_free(Column, slot))
         /\ issued' = {p \in issued : p[1] # slot}
         /\ lastOp' = [op |-> "free", h |-> slot, v |-> 0,
                       recent |-> lastOp.recent,
                       before |-> Column,
                       wasFreed |-> \E k \in 1..Len(free) : free[k] = slot,
                       wasRecent |-> /\ slot = lastOp.recent
                                     /\ \E p \in issued : p[1] = slot,
                       wasLast |-> /\ slot > 0
                                   /\ slot < Len(indices)
                                   /\ At(indices, slot) # 0
                                   /\ At(indices, slot) = Len(contiguous) - 1,
                       wasLive |-> \E p \in issued : p[1] = slot]
    /\ UNCHANGED <<crossVars, layoutVars, bufferVars,
                   queueVars, extVars>>

NextColumn ==
    \/ Put
    \/ Free

SpecColumn == Init /\ [][NextColumn]_vars

\* ------------------------------------------------------- Layout builder
\* layout = layout.partition::<T>(count)
Partition ==
    /\ ~layout.panicked
    /\ IF layout.head < PARTS
       THEN \E size \in ElemSizes, count \in 1..MaxCount :
              /\ layout' = partition(layout, size, count, alignment)
              /\ calls' = Append(calls, <<size, count>>)
       ELSE \* the assert fails before T and count are looked at
            /\ layout' = partition(layout, 1, 1, alignment)
            /\ calls' = <<>>
    /\ UNCHANGED <<alignment, crossVars, columnVars, bufferVars,
                   queueVars, extVars>>

NextLayout == Partition

SpecLayout == Init /\ [][NextLayout]_vars

\* --------------------------------------------- PartitionedTriBuffer calls
\* the slice of n elements of size bytes the caller passes: its bytes are
\* 1, 2, 3, ... in address order
SrcData(size, n) ==
    [k \in 1..n |-> [j \in 1..size |-> ((k - 1) * size + j) % 256]]

\* the buffer variables take the value of b. A store past the end of the
\* mapping may have faulted before any byte was stored or may have stored
\* the bytes that fit.
BufferBecomes(b) ==
    /\ memory' \in (IF b.ub THEN {memory, b.memory} ELSE {b.memory})
    /\ written' = b.written
    /\ ub' = b.ub
    /\ bufPanicked' = b.panicked
    /\ bufOps' = bufOps + 1
    /\ srcRead' = b.read
    /\ returned' = b.returned
    /\ binds' = b.binds
    /\ triMem' = triMem

\* buffer.blit_part::<T>(section, part, data), for every section and part
\* the caller may pass, one past the valid ones included
BlitPart ==
    /\ ~bufPanicked /\ ~ub /\ bufOps < MaxOps
    /\ \E section \in 0..3, part \in 0..PARTS, size \in ElemSizes,
          n \in 0..MaxSrc :
         /\ BufferBecomes(blit_part(Buffer, section, part, size,
                                    SrcData(size, n)))
         /\ bufOp' = [op |-> "blit_part", section |-> section,
                      part |-> part, size |-> size,
                      data |-> SrcData(size, n), strategy |-> "none",
                      before |-> memory, beforeTri |-> triMem,
                      layout |-> BufferLayout]
    /\ UNCHANGED <<crossVars, columnVars, layoutVars,
                   queueVars, extVars>>

\* buffer.initialise_part::<T, F>(part, strategy)
InitialisePart ==
    /\ ~bufPanicked /\ ~ub /\ bufOps < MaxOps
    /\ \E part \in 0..PARTS, strategy \in {"Zero", "FillWith"},
          size \in ElemSizes :
         /\ BufferBecomes(initialise_part(Buffer, part, strategy, size,
                                          SrcData(size, 1)[1]))
         /\ bufOp' = [op |-> "initialise_part", section |-> 0,
                      part |-> part, size |-> size,
                      data |-> <<SrcData(size, 1)[1]>>,
                      strategy |-> strategy, before |-> memory,
                      beforeTri |-> triMem, layout |-> BufferLayout]
    /\ UNCHANGED <<crossVars, columnVars, layoutVars,
                   queueVars, extVars>>

NextBuffer ==
    \/ BlitPart
    \/ InitialisePart

SpecBuffer == Init /\ [][NextBuffer]_vars

\* the lengths of the byte slices handed to blit_section: short ones and
\* ones around the length of a section
BlitLens ==
    (0..MaxSrc) \cup {section_length - 1, section_length,
                      section_length + MaxSrc}

\* the record of a call: its name, its arguments, the memory it was made
\* on and the layout of the buffer
Call(op, section, part, size, data) ==
    [op |-> op, section |-> section, part |-> part, size |-> size,
     data |-> data, strategy |-> "none", before |-> memory,
     beforeTri |-> triMem, layout |-> BufferLayout]

\* buffer.blit_section(section, data)
BlitSection ==
    /\ ~bufPanicked /\ ~ub /\ bufOps < MaxOps
    /\ \E section \in 0..3, n \in BlitLens :
         /\ BufferBecomes(blit_section(Buffer, section, SrcData(1, n)))
         /\ bufOp' = Call("blit_section", section, 0, 1, SrcData(1, n))
    /\ UNCHANGED <<crossVars, columnVars, layoutVars,
                   queueVars, extVars>>

\* buffer.view_section(section)
ViewSection ==
    /\ ~bufPanicked /\ ~ub /\ bufOps < MaxOps
    /\ \E section \in 0..3 :
         /\ BufferBecomes(view_section(Buffer, section))
         /\ bufOp' = Call("view_section", section, 0, 1, <<>>)
    /\ UNCHANGED <<crossVars, columnVars, layoutVars,
                   queueVars, extVars>>

\* buffer.view_section_mut(section)
ViewSectionMut ==
    /\ ~bufPanicked /\ ~ub /\ bufOps < MaxOps
    /\ \E section \in 0..3 :
         /\ BufferBecomes(view_section_mut(Buffer, section))
         /\ bufOp' = Call("view_section_mut", section, 0, 1, <<>>)
    /\ UNCHANGED <<crossVars, columnVars, layoutVars,
                   queueVars, extVars>>

\* buffer.view_part::<T>(section, part)
ViewPart ==
    /\ ~bufPanicked /\ ~ub /\ bufOps < MaxOps
    /\ \E section \in 0..3, part \in 0..PARTS, size \in ElemSizes :
         /\ BufferBecomes(view_part_at(Buffer, section, part, size))
         /\ bufOp' = Call("view_part", section, part, size, <<>>)
    /\ UNCHANGED <<crossVars, columnVars, layoutVars,
                   queueVars, extVars>>

\* buffer.view_part_mut::<T>(section, part)
ViewPartMut ==
    /\ ~bufPanicked /\ ~ub /\ bufOps < MaxOps
    /\ \E section \in 0..3, part \in 0..PARTS, size \in ElemSizes :
         /\ BufferBecomes(view_part_mut(Buffer, section, part, size))
         /\ bufOp' = Call("view_part_mut", section, part, size, <<>>)
    /\ UNCHANGED <<crossVars, columnVars, layoutVars,
                   queueVars, extVars>>

\* buffer.bind_shader_storage(section)
BindShaderStorage ==
    /\ ~bufPanicked /\ ~ub /\ bufOps < MaxOps
    /\ \E section \in 0..3 :
         /\ BufferBecomes(bind_shader_storage(Buffer, BufferLayout,
                                           BufferAlignment, section))
         /\ bufOp' = Call("bind_shader_storage", section, 0, 1, <<>>)
    /\ UNCHANGED <<crossVars, columnVars, layoutVars,
                   queueVars, extVars>>

\* the TriBuffer takes the value of t. A read past the end of the source
\* slice may have faulted before any element was stored or may have copied
\* whatever lies there.
TriBecomes(t) ==
    /\ triMem' \in (IF t.ub THEN {triMem, t.mem} ELSE {t.mem})
    /\ written' = t.written
    /\ ub' = t.ub
    /\ bufPanicked' = t.panicked
    /\ bufOps' = bufOps + 1
    /\ srcRead' = t.read
    /\ returned' = t.returned
    /\ binds' = t.binds
    /\ memory' = memory

\* tri.blit_section(section, data)
TriBlitSection ==
    /\ ~bufPanicked /\ ~ub /\ bufOps < MaxOps
    /\ \E section \in 0..3, n \in 0..MaxSrc :
         /\ TriBecomes(tri_blit_section(Tri, section, SrcData(1, n)))
         /\ bufOp' = Call("tri_blit_section", section, 0, 1, SrcData(1, n))
    /\ UNCHANGED <<crossVars, columnVars, layoutVars,
                   queueVars, extVars>>

\* tri.view_section(section)
TriViewSection ==
    /\ ~bufPanicked /\ ~ub /\ bufOps < MaxOps
    /\ \E section \in 0..3 :
         /\ TriBecomes(tri_view_section(Tri, section))
         /\ bufOp' = Call("tri_view_section", section, 0, 1, <<>>)
    /\ UNCHANGED <<crossVars, columnVars, layoutVars,
                   queueVars, extVars>>

\* tri.view_section_mut(section)
TriViewSectionMut ==
    /\ ~bufPanicked /\ ~ub /\ bufOps < MaxOps
    /\ \E section \in 0..3 :
         /\ TriBecomes(tri_view_section_mut(Tri, section))
         /\ bufOp' = Call("tri_view_section_mut", section, 0, 1, <<>>)
    /\ UNCHANGED <<crossVars, columnVars, layoutVars,
                   queueVars, extVars>>

\* tri.bind_shader_storage(section, ssbo_index)
TriBindShaderStorage ==
    /\ ~bufPanicked /\ ~ub /\ bufOps < MaxOps
    /\ \E section \in 0..3, ssbo_index \in 0..1 :
         /\ TriBecomes(tri_bind_shader_storage(Tri, section, ssbo_index))
         /\ bufOp' = Call("tri_bind_shader_storage", section, 0, 1, <<>>)
    /\ UNCHANGED <<crossVars, columnVars, layoutVars,
                   queueVars, extVars>>

\* every operation of PartitionedTriBuffer and of TriBuffer
NextAccess ==
    \/ BlitPart
    \/ InitialisePart
    \/ BlitSection
    \/ ViewSection
    \/ ViewSectionMut
    \/ ViewPart
    \/ ViewPartMut
    \/ BindShaderStorage
    \/ TriBlitSection
    \/ TriViewSection
    \/ TriViewSectionMut
    \/ TriBindShaderStorage

\* the device's alignment is the one the buffer's layout was made for
InitAccess == Init /\ alignment = BufferAlignment

SpecAccess == InitAccess /\ [][NextAccess]_vars


\* ------------------------------------- layouts with shader-storage bindings
\* the binding indices handed to with_shader_storage
Bindings == {0, 1}

\* one part of layout_buffer!'s create(): partition::<T>(count), then
\* with_shader_storage(binding) if the part names a binding
CreatePart ==
    /\ ~layout.panicked /\ layout.head < PARTS /\ bufOp.op = "none"
    /\ \E size \in ElemSizes, count \in {1, MaxCount},
          binding \in {<<>>} \cup {<<i>> : i \in Bindings} :
         /\ layout' = create_part(layout, <<size, count>> \o binding,
                                  alignment)
         /\ calls' = Append(calls, <<size, count>>)
    /\ UNCHANGED <<alignment, crossVars, columnVars, bufferVars,
                   queueVars, extVars>>

\* PartitionedTriBuffer::new(layout).bind_shader_storage(section): the
\* buffer is made from the layout built so far and bound once
BindLayout ==
    /\ ~layout.panicked /\ bufOp.op = "none"
    /\ \E section \in 0..3 :
         /\ BufferBecomes(bind_shader_storage(Buffer, layout, alignment,
                                              section))
         /\ bufOp' = [Call("bind_shader_storage", section, 0, 1, <<>>)
                        EXCEPT !.layout = layout]
    /\ UNCHANGED <<crossVars, columnVars, layoutVars,
                   queueVars, extVars>>

NextBind ==
    \/ CreatePart
    \/ BindLayout

SpecBind == Init /\ [][NextBind]_vars

\* ------------------------------------------------- GpuCommandQueue calls
\* the queue variables take the value of q
QueueBecomes(q) ==
    /\ queue' = q.queue
    /\ upload_head' = q.upload_head
    /\ fixed_buffer_len' = q.fixed_buffer_len
    /\ qPanicked' = q.panicked

\* the record of a queue call other than upload
QueueCall(op) ==
    [op |-> op, prev |-> qOp.op, head |-> upload_head, queue |-> queue,
     buffer |-> cmdBuffer, copied |-> 0, ret |-> Ok]

\* *state.command_queue_mut() = GpuCommandQueue::new(buffer_len), with a
\* zeroed command buffer of buffer_len commands
New ==
    /\ qOp.op = "none"
    /\ \E buffer_len \in 1..MaxCap :
         /\ QueueBecomes(queue_new(buffer_len))
         /\ cmdBuffer' = [k \in 1..buffer_len |-> 0]
    /\ qOp' = QueueCall("new")
    /\ uploads' = <<>>
    /\ UNCHANGED <<pushed, pc_s, crossVars, columnVars, layoutVars,
                   bufferVars, extVars>>

\* queue.push(command): the commands pushed are 1, 2, 3, ...
Push ==
    /\ qOp.op # "none" /\ ~qPanicked /\ pushed < MaxPush
    /\ QueueBecomes(push(CommandQueue, pushed + 1))
    /\ pushed' = pushed + 1
    /\ qOp' = QueueCall("push")
    /\ uploads' = <<>>
    /\ UNCHANGED <<cmdBuffer, pc_s, crossVars, columnVars, layoutVars,
                   bufferVars, extVars>>

\* queue.pop()
Pop ==
    /\ qOp.op # "none" /\ ~qPanicked
    /\ QueueBecomes(pop(CommandQueue))
    /\ qOp' = QueueCall("pop")
    /\ uploads' = <<>>
    /\ UNCHANGED <<pushed, cmdBuffer, pc_s, crossVars, columnVars,
                   layoutVars, bufferVars, extVars>>

\* queue.clear()
Clear ==
    /\ qOp.op # "none" /\ ~qPanicked
    /\ QueueBecomes(clear(CommandQueue))
    /\ qOp' = QueueCall("clear")
    /\ uploads' = <<>>
    /\ UNCHANGED <<pushed, cmdBuffer, pc_s, crossVars, columnVars,
                   layoutVars, bufferVars, extVars>>

\* the queue and the buffer take the values upload left, r
UploadBecomes(r) ==
    /\ QueueBecomes(r.q)
    /\ cmdBuffer' = r.buffer
    /\ qOp' = [op |-> "upload", prev |-> qOp.op, head |-> upload_head,
               queue |-> queue, buffer |-> cmdBuffer, copied |-> r.copied,
               ret |-> r.ret]
    /\ uploads' = Append(uploads, [head |-> upload_head,
                                   copied |-> SubSeq(r.buffer, 1, r.copied),
                                   ret |-> r.ret])

\* queue.upload(&mut buffer), in a build with or without overflow checks
Upload ==
    /\ qOp.op # "none" /\ ~qPanicked /\ Len(uploads) < MaxUploads
    /\ IF Len(queue) < upload_head
       THEN \E overflow_checks \in BOOLEAN :
              UploadBecomes(upload(CommandQueue, cmdBuffer, overflow_checks))
       ELSE UploadBecomes(upload(CommandQueue, cmdBuffer, TRUE))
    /\ UNCHANGED <<pushed, pc_s, crossVars, columnVars, layoutVars,
                   bufferVars, extVars>>

NextQueue ==
    \/ New
    \/ Push
    \/ Pop
    \/ Clear
    \/ Upload

SpecQueue == Init /\ [][NextQueue]_vars

\* ---------------------------------------------------------- State::upload
\* ethel::COMMAND_QUEUE_ALLOC, the length of the command buffer
COMMAND_QUEUE_ALLOC == MaxCap

\* main: *state.command_queue_mut() =
\* GpuCommandQueue::new(ethel::COMMAND_QUEUE_ALLOC), the command buffer is
\* TriBuffer::new_zeroed(ethel::COMMAND_QUEUE_ALLOC, Zero)
StateNew ==
    /\ qOp.op = "none"
    /\ QueueBecomes(queue_new(COMMAND_QUEUE_ALLOC))
    /\ cmdBuffer' = [k \in 1..COMMAND_QUEUE_ALLOC |-> 0]
    /\ qOp' = QueueCall("new")
    /\ uploads' = <<>>
    /\ UNCHANGED <<pushed, pc_s, crossVars, columnVars, layoutVars,
                   bufferVars, extVars>>

\* the command State::upload pushes for every entity
DrawCommand == 1

\* self.entities.iter().for_each(|_| self.command_queue.push(..)): one
\* command per entity, all alike; there are no entities, as many as the
\* buffer holds, or more
StateStage ==
    /\ pc_s = "idle" /\ pc_p = "idle"
    /\ qOp.op # "none" /\ ~qPanicked /\ frame < MaxFrames
    /\ \E entities \in {0, fixed_buffer_len, MaxPush} :
         /\ queue' = queue \o [k \in 1..entities |-> DrawCommand]
         /\ qOp' = [QueueCall("push") EXCEPT !.copied = entities]
    /\ uploads' = <<>>
    /\ pc_s' = "cross"
    /\ UNCHANGED <<upload_head, fixed_buffer_len, cmdBuffer, qPanicked,
                   pushed, crossVars, columnVars, layoutVars, bufferVars, extVars>>

\* self.boundary.cross(..): let section = current_section().next()
StateCrossLoad ==
    /\ pc_s = "cross"
    /\ ProducerLoad

\* if !has_lock(section) { .. }: on a lock the cross returns at once
StateCrossCheck ==
    /\ pc_s = "cross" /\ pc_p = "check"
    /\ pc_p' = IF has_lock(locks, psection) THEN "idle" ELSE "write"
    /\ aborted' = IF has_lock(locks, psection) THEN aborted + 1 ELSE aborted
    /\ pc_s' = IF has_lock(locks, psection) THEN "clear" ELSE "cross"
    /\ UNCHANGED <<working_section, locks, storage, fences, barrierDropped,
                   fenceSt, delCount, nextFence, psection, frame,
                   pc_c, csection, crossed>>
    /\ UNCHANGED <<queue, upload_head, fixed_buffer_len, cmdBuffer,
                   qPanicked, pushed, qOp, uploads>>
    /\ UNCHANGED <<columnVars, layoutVars, bufferVars, extVars>>

\* the closure of State::upload: the blits into the scene buffer, then
\* self.command_queue().upload(&mut data) into the section's command buffer
StateWrite ==
    /\ pc_s = "cross" /\ pc_p = "write"
    /\ storage' = [storage EXCEPT ![as_index(psection)] = frame]
    /\ UploadBecomes(upload(CommandQueue, cmdBuffer, TRUE))
    /\ pc_p' = "advance"
    /\ UNCHANGED <<working_section, locks, fences, barrierDropped,
                   fenceSt, delCount, nextFence, psection, frame,
                   pc_c, csection, crossed, aborted>>
    /\ UNCHANGED <<pushed, pc_s, columnVars, layoutVars, bufferVars, extVars>>

\* self.boundary.advance_section(), the end of the cross
StateAdvance ==
    /\ pc_s = "cross" /\ pc_p = "advance"
    /\ working_section' = advance_section(working_section)
    /\ crossed' = crossed + 1
    /\ pc_p' = "idle"
    /\ pc_s' = "clear"
    /\ UNCHANGED <<locks, storage, fences, barrierDropped,
                   fenceSt, delCount, nextFence, psection, frame,
                   pc_c, csection, aborted>>
    /\ UNCHANGED <<queue, upload_head, fixed_buffer_len, cmdBuffer,
                   qPanicked, pushed, qOp, uploads>>
    /\ UNCHANGED <<columnVars, layoutVars, bufferVars, extVars>>

\* self.command_queue_mut().clear(), the end of State::upload
StateClear ==
    /\ pc_s = "clear"
    /\ QueueBecomes(clear(CommandQueue))
    /\ qOp' = QueueCall("clear")
    /\ uploads' = <<>>
    /\ pc_s' = "idle"
    /\ UNCHANGED <<pushed, cmdBuffer, crossVars, columnVars, layoutVars,
                   bufferVars, extVars>>

\* the logic thread's State::upload and the render thread's Consumer.cross
NextState ==
    \/ StateNew
    \/ StateStage
    \/ StateCrossLoad
    \/ StateCrossCheck
    \/ StateWrite
    \/ StateAdvance
    \/ StateClear
    \/ ConsumerLoad
    \/ ConsumerSyncBefore
    \/ ConsumerOp
    \/ ConsumerSyncAfter
    \/ GpuSignal

SpecState == Init /\ [][NextState]_vars

\* ------------------------------------------- Contiguous triple buffer
\* the condition Contiguous::write_at asserts before it copies
write_at_assert(len, capacity) == len > capacity

\* copy_nonoverlapping(src, ptr[buf_idx].add(offset), len): the elements of
\* the buffer after the copy; only the stores that stay inside it
copy_into(buf, data, offset) ==
    [k \in 1..Len(buf) |->
        IF k > offset /\ k - offset <= Len(data) THEN data[k - offset]
        ELSE buf[k]]

\* the elements of data the copy stores past the end of the buffer
Excess(buf, data, offset) ==
    IF offset + Len(data) > Len(buf)
    THEN SubSeq(data, IF Len(buf) > offset THEN Len(buf) - offset + 1 ELSE 1,
                Len(data))
    ELSE <<>>

\* where the stores past the end of buffer buf_idx can land: in one of the
\* two other heap allocations of with_capacity, or in memory that is none
\* of the three (3)
Elsewhere == 3
SpillTargets(buf_idx) == ({0, 1, 2} \ {buf_idx}) \cup {Elsewhere}

\* the three buffers after the copy of Contiguous::write_at
write_at_copy(p, buf_idx, data, offset, spill) ==
    LET over == Excess(p[buf_idx], data, offset)
    IN  [i \in 0..2 |->
            IF i = buf_idx THEN copy_into(p[i], data, offset)
            ELSE IF i = spill /\ over # <<>> THEN copy_into(p[i], over, 0)
            ELSE p[i]]

\* the buffers a copy stores to
Stored(buf_idx, data, offset, spill) ==
    {buf_idx} \cup
    (IF offset + Len(data) > ContCapacity THEN {spill} \ {Elsewhere} ELSE {})

\* Producer::write_at, up to the assertion of Contiguous::write_at
WriteAt ==
    /\ pc_w = "idle" /\ ~tbPanicked /\ writes < MaxWrites
    /\ \E len \in 0..MaxData, offset \in 0..MaxOffset :
         LET data == [k \in 1..len |-> writes + 1]
         IN  /\ tbOp' = [op |-> "write_at", data |-> data, offset |-> offset,
                         buf_idx |-> write_idx, before |-> ptr,
                         panicked |-> ~write_at_assert(len, ContCapacity),
                         copied |-> FALSE, done |-> FALSE]
             /\ IF write_at_assert(len, ContCapacity)
                THEN /\ wcall' = [data |-> data, offset |-> offset]
                     /\ pc_w' = "copy"
                     /\ UNCHANGED tbPanicked
                ELSE /\ tbPanicked' = TRUE
                     /\ UNCHANGED <<wcall, pc_w>>
    /\ writes' = writes + 1
    /\ UNCHANGED <<intermediate_idx, tb_length, ptr, write_idx, read_idx,
                   pc_r, slice, tbUb, clobbered>>
    /\ UNCHANGED otherThanTriple

\* the copy_nonoverlapping of Contiguous::write_at
WriteCopy ==
    /\ pc_w = "copy"
    /\ \E spill \in (IF wcall.offset + Len(wcall.data) > ContCapacity
                     THEN SpillTargets(write_idx) ELSE {Elsewhere}) :
         /\ ptr' = write_at_copy(ptr, write_idx, wcall.data, wcall.offset,
                                 spill)
         /\ clobbered' =
              (clobbered \/
               (slice # <<>> /\ slice[1].len > 0 /\
                slice[1].idx \in Stored(write_idx, wcall.data, wcall.offset,
                                     spill)))
    /\ tbUb' = (tbUb \/ wcall.offset + Len(wcall.data) > ContCapacity)
    /\ tbOp' = [tbOp EXCEPT !.copied = TRUE]
    /\ pc_w' = "store"
    /\ UNCHANGED <<intermediate_idx, tb_length, write_idx, read_idx, pc_r,
                   wcall, slice, tbPanicked, writes>>
    /\ UNCHANGED otherThanTriple

\* self.length.store(len, Release)
WriteStore ==
    /\ pc_w = "store"
    /\ tb_length' = Len(wcall.data)
    /\ pc_w' = "swap"
    /\ UNCHANGED <<intermediate_idx, ptr, write_idx, read_idx, pc_r, wcall,
                   slice, tbPanicked, tbUb, clobbered, writes, tbOp>>
    /\ UNCHANGED otherThanTriple

\* self.write_idx = self.intermediate_idx.swap(buf_idx, Release)
WriteSwap ==
    /\ pc_w = "swap"
    /\ intermediate_idx' = write_idx
    /\ write_idx' = intermediate_idx
    /\ tbOp' = [tbOp EXCEPT !.done = TRUE]
    /\ wcall' = <<>>
    /\ pc_w' = "idle"
    /\ UNCHANGED <<tb_length, ptr, read_idx, pc_r, slice, tbPanicked, tbUb,
                   clobbered, writes>>
    /\ UNCHANGED otherThanTriple

\* Consumer::read: the swap of Contiguous::read_at_for; the slice of the
\* read before is given up with the call (it borrows the consumer)
ReadSwap ==
    /\ pc_r = "idle"
    /\ intermediate_idx' = read_idx
    /\ read_idx' = intermediate_idx
    /\ slice' = <<>>
    /\ pc_r' = "load"
    /\ UNCHANGED <<tb_length, ptr, write_idx, pc_w, wcall, tbPanicked, tbUb,
                   clobbered, writes, tbOp>>
    /\ UNCHANGED otherThanTriple

\* self.length.load(Acquire).min(usize::MAX) and from_raw_parts
ReadSlice ==
    /\ pc_r = "load"
    /\ slice' = <<[idx |-> read_idx, len |-> tb_length]>>
    /\ pc_r' = "idle"
    /\ UNCHANGED <<intermediate_idx, tb_length, ptr, write_idx, read_idx,
                   pc_w, wcall, tbPanicked, tbUb, clobbered, writes, tbOp>>
    /\ UNCHANGED otherThanTriple

NextTriple ==
    \/ WriteAt \/ WriteCopy \/ WriteStore \/ WriteSwap
    \/ ReadSwap \/ ReadSlice

SpecTriple == Init /\ [][NextTriple]_vars

\* ------------------------------------------------------- FxSpatialHash
Cell(x, y, z) == [x |-> x, y |-> y, z |-> z]

\* the cells elements are put in, and the elements
HashCells ==
    {Cell(x, y, z) : x \in -MaxRange..MaxRange, y \in 0..1, z \in 0..1}
Elements == {1, 2}

\* FxSpatialHash::put: HashMap::insert
hash_put(m, cell, element) ==
    [c \in DOMAIN m \cup {cell} |-> IF c = cell THEN element ELSE m[c]]

\* FxSpatialHash::remove: HashMap::remove
hash_remove(m, cell) == [c \in DOMAIN m \ {cell} |-> m[c]]

\* the order in which the three nested loops of nearest_cell visit cells:
\* x outermost, z innermost, each from -range to +range
VisitedBefore(a, b) ==
    \/ a.x < b.x
    \/ a.x = b.x /\ a.y < b.y
    \/ a.x = b.x /\ a.y = b.y /\ a.z < b.z

\* the cells the loops of nearest_cell visit and do not skip
Visited(cell, ix, iy, iz) ==
    {Cell(cell.x + x, cell.y + y, cell.z + z) :
        x \in -ix..ix, y \in -iy..iy, z \in -iz..iz} \ {cell}

\* FxSpatialHash::nearest_cell: the first populated cell the loops visit
nearest_cell(m, cell, max_range_x, max_range_y, max_range_z) ==
    LET found == Visited(cell, max_range_x, max_range_y, max_range_z)
                     \cap DOMAIN m
    IN  IF found = {} THEN [ok |-> FALSE]
        ELSE LET other == CHOOSE c \in found :
                              \A d \in found \ {c} : VisitedBefore(c, d)
             IN  [ok |-> TRUE, cell |-> other, element |-> m[other]]

HashCall(op, cell) ==
    [op |-> op, map |-> hash_map, cell |-> cell, rx |-> 0, ry |-> 0,
     rz |-> 0, ret |-> [ok |-> FALSE]]

HashPut ==
    /\ \E cell \in HashCells, element \in Elements :
         /\ cell \in DOMAIN hash_map \/ Cardinality(DOMAIN hash_map) < MaxCells
         /\ hash_map' = hash_put(hash_map, cell, element)
         /\ hashOp' = HashCall("put", cell)
    /\ UNCHANGED otherThanHash

HashRemove ==
    /\ \E cell \in DOMAIN hash_map :
         /\ hash_map' = hash_remove(hash_map, cell)
         /\ hashOp' = HashCall("remove", cell)
    /\ UNCHANGED otherThanHash

NearestCell ==
    /\ \E cell \in {Cell(0, 0, 0), Cell(1, 0, 0)},
          rx \in 0..MaxRange, ry \in 0..1, rz \in 0..1 :
         hashOp' = [HashCall("nearest_cell", cell) EXCEPT
                       !.rx = rx, !.ry = ry, !.rz = rz,
                       !.ret = nearest_cell(hash_map, cell, rx, ry, rz)]
    /\ UNCHANGED hash_map
    /\ UNCHANGED otherThanHash

NextHash == HashPut \/ HashRemove \/ NearestCell

SpecHash == Init /\ [][NextHash]_vars

\* ------------------------------------- ArrayColumn and table_spec! tables
\* <ArrayColumn as Column>::free; the column it leaves behind. The call ends
\* in todo!(), which panics once the element has been removed
array_free(c, slot) ==
    IF slot = 0 THEN [c EXCEPT !.panicked = TRUE]
    ELSE IF slot >= Len(c.indices) THEN [c EXCEPT !.panicked = TRUE]
    ELSE LET contiguous_slot == At(c.indices, slot) IN
         IF contiguous_slot = 0 THEN c
         ELSE IF contiguous_slot >= Len(c.contiguous)
              \* contiguous.swap_remove panics
              THEN [c EXCEPT !.indices = SetAt(c.indices, slot, 0),
                             !.panicked = TRUE]
              ELSE [c EXCEPT
                      !.indices = SetAt(c.indices, slot, 0),
                      !.contiguous = swap_remove(c.contiguous, contiguous_slot),
                      !.free = Append(c.free, slot),
                      !.panicked = TRUE]

\* <ArrayColumn as Column>::put; the column it leaves behind
array_put(c, value) ==
    LET index == next_slot_index(c)
        c1 == next_slot_column(c)
        slot == Len(c1.contiguous)
    IN [c1 EXCEPT !.indices = SetAt(c1.indices, index, slot),
                  !.contiguous = Append(c1.contiguous, value)]

\* a table free that patches the map entry of the moved row's owner
table_free_patched(c, slot) == column_free(c, slot)
\* the free of a table_spec! row table; the table it leaves behind (the rows
\* are swap-removed together and are one sequence here)
table_free(c, slot) ==
    IF slot = 0 THEN [c EXCEPT !.panicked = TRUE]
    ELSE IF slot >= Len(c.indices) THEN [c EXCEPT !.panicked = TRUE]
    ELSE LET contiguous_slot == At(c.indices, slot) IN
         IF contiguous_slot = 0 THEN c
         ELSE IF contiguous_slot >= Len(c.owners)
              \* owners.swap_remove panics
              THEN [c EXCEPT !.indices = SetAt(c.indices, slot, 0),
                             !.panicked = TRUE]
              ELSE [c EXCEPT
                      !.indices = SetAt(c.indices, slot, 0),
                      !.owners = swap_remove(c.owners, contiguous_slot),
                      !.contiguous = swap_remove(c.contiguous, contiguous_slot),
                      !.free = Append(c.free, slot)]

\* the put of a table_spec! row table; the table it leaves behind
table_put(c, row) ==
    LET index == next_slot_index(c)
        c1 == next_slot_column(c)
        slot == Len(c1.contiguous)
    IN [c1 EXCEPT !.indices = SetAt(c1.indices, index, slot),
                  !.owners = Append(c1.owners, index),
                  !.contiguous = Append(c1.contiguous, row)]

\* every live handle of c dereferences to its own value through a dense slot
\* no other live handle maps to; a table is followed until a free leaves it
\* otherwise
Intact(c, live) ==
    \A p \in live :
        /\ p[1] > 0 /\ p[1] < Len(c.indices)
        /\ At(c.indices, p[1]) > 0
        /\ At(c.indices, p[1]) < Len(c.contiguous)
        /\ At(c.contiguous, At(c.indices, p[1])) = p[2]
        /\ \A q \in live :
              At(c.indices, q[1]) = At(c.indices, p[1]) => q = p

\* what a put leaves in lastOp
PutOp(name, c, value) ==
    [op |-> name, h |-> next_slot_index(c), v |-> value,
     recent |-> next_slot_index(c),
     wasLast |-> FALSE, wasLive |-> FALSE, wasRecent |-> FALSE,
     wasFreed |-> FALSE, before |-> c]

\* what a free leaves in lastOp
FreeOp(name, c, slot) ==
    [op |-> name, h |-> slot, v |-> 0, recent |-> lastOp.recent,
     before |-> c,
     wasFreed |-> \E k \in 1..Len(c.free) : c.free[k] = slot,
     wasRecent |-> slot = lastOp.recent /\ \E p \in issued : p[1] = slot,
     wasLast |-> /\ slot > 0
                 /\ slot < Len(c.indices)
                 /\ At(c.indices, slot) # 0
                 /\ At(c.indices, slot) = Len(c.contiguous) - 1,
     wasLive |-> \E p \in issued : p[1] = slot]

\* ArrayColumn::new() in place of the ParallelIndexArrayColumn: the same
\* vectors without the owner array, which stays as it is and is never read
ArrayColumnNew ==
    /\ variant = "ParallelIndexArrayColumn" /\ lastOp.op = "none"
    /\ variant' = "ArrayColumn"
    /\ lastOp' = [lastOp EXCEPT !.op = "new"]
    /\ UNCHANGED <<indices, contiguous, owners, free, panicked, issued>>
    /\ UNCHANGED otherThanColumn

\* RowTable::new() of a table_spec! table; new() names no value for the
\* owners field, it is vec![0] as in ParallelIndexArrayColumn::new
RowTableNew ==
    /\ variant = "ParallelIndexArrayColumn" /\ lastOp.op = "none"
    /\ variant' = "RowTable"
    /\ lastOp' = [lastOp EXCEPT !.op = "new"]
    /\ UNCHANGED <<indices, contiguous, owners, free, panicked, issued>>
    /\ UNCHANGED otherThanColumn

ArrayPut ==
    /\ variant = "ArrayColumn" /\ ~panicked
    /\ Len(free) > 0 \/ Len(indices) <= MaxHandles
    /\ \E value \in 1..MaxVal :
         /\ Becomes(array_put(Column, value))
         /\ issued' = issued \cup {<<next_slot_index(Column), value>>}
         /\ lastOp' = PutOp("put", Column, value)
    /\ UNCHANGED variant
    /\ UNCHANGED otherThanColumn

ArrayFree ==
    /\ variant = "ArrayColumn" /\ ~panicked
    /\ \E slot \in 0..Len(indices) :
         /\ Becomes(array_free(Column, slot))
         /\ issued' = {p \in issued : p[1] # slot}
         /\ lastOp' = FreeOp("free", Column, slot)
    /\ UNCHANGED variant
    /\ UNCHANGED otherThanColumn

TablePut ==
    /\ variant = "RowTable" /\ ~panicked
    /\ Intact(Column, issued)
    /\ Len(free) > 0 \/ Len(indices) <= MaxHandles
    /\ \E row \in 1..MaxVal :
         /\ Becomes(table_put(Column, row))
         /\ issued' = issued \cup {<<next_slot_index(Column), row>>}
         /\ lastOp' = PutOp("put", Column, row)
    /\ UNCHANGED variant
    /\ UNCHANGED otherThanColumn

TableFree ==
    /\ variant = "RowTable" /\ ~panicked
    /\ Intact(Column, issued)
    /\ \E slot \in 0..Len(indices) :
         /\ Becomes(table_free(Column, slot))
         /\ issued' = {p \in issued : p[1] # slot}
         /\ lastOp' = FreeOp("free", Column, slot)
    /\ UNCHANGED variant
    /\ UNCHANGED otherThanColumn

NextVariants ==
    \/ ArrayColumnNew \/ ArrayPut \/ ArrayFree
    \/ RowTableNew \/ TablePut \/ TableFree

SpecVariants == Init /\ [][NextVariants]_vars

\* ------------------------------------------- Producer.cross called for ever
\* the counters of crosses made and given up only tell none from some here,
\* and the frame number is not advanced, so that the thread can run for ever
Bump(n) == IF n = 0 THEN 1 ELSE n

\* let section = self.boundary.current_section().next();  of a logic thread
\* that calls Producer.cross again and again
LoopProducerLoad ==
    /\ pc_p = "idle"
    /\ psection' = next(from_byte(working_section))
    /\ pc_p' = "check"
    /\ UNCHANGED <<working_section, locks, storage, fences, barrierDropped,
                   fenceSt, delCount, nextFence, pc_c, csection, crossed,
                   aborted, frame>>
    /\ UNCHANGED <<columnVars, layoutVars, bufferVars, queueVars, extVars>>

\* if !self.boundary.sync_cache().has_lock(section) { ... }
LoopProducerCheck ==
    /\ pc_p = "check"
    /\ pc_p' = IF has_lock(locks, psection) THEN "idle" ELSE "write"
    /\ aborted' = IF has_lock(locks, psection) THEN Bump(aborted) ELSE aborted
    /\ UNCHANGED <<working_section, locks, storage, fences, barrierDropped,
                   fenceSt, delCount, nextFence, psection, frame,
                   pc_c, csection, crossed>>
    /\ UNCHANGED <<columnVars, layoutVars, bufferVars, queueVars, extVars>>

\* self.boundary.advance_section();
LoopProducerAdvance ==
    /\ pc_p = "advance"
    /\ working_section' = advance_section(working_section)
    /\ crossed' = Bump(crossed)
    /\ pc_p' = "idle"
    /\ UNCHANGED <<locks, storage, fences, barrierDropped,
                   fenceSt, delCount, nextFence, psection, frame,
                   pc_c, csection, aborted>>
    /\ UNCHANGED <<columnVars, layoutVars, bufferVars, queueVars, extVars>>

\* the fence objects FenceSync can hand out: those never used and those no
\* slot of the barrier holds any more (it hands out the lowest of them)
FreeFences ==
    {f \in 1..MaxFences : \A i \in 0..2 : fences[i] # f}

\* op(section, self.boundary.storage()) of a render thread that runs for
\* ever: the frame may place a fence for the section it read
LoopConsumerOp ==
    /\ pc_c = "op"
    /\ \/ UNCHANGED <<fences, fenceSt, delCount>>
       \/ \E f \in {g \in FreeFences : \A h \in FreeFences : g <= h} :
            /\ fences' = SetFence(fences, as_index(csection), f)
            /\ fenceSt' = [fenceSt EXCEPT ![f] = "pending"]
            /\ delCount' = [delCount EXCEPT ![f] = 0]
    /\ pc_c' = "sync2"
    /\ UNCHANGED <<working_section, locks, storage, barrierDropped,
                   nextFence, pc_p, psection, frame, csection, crossed,
                   aborted>>
    /\ UNCHANGED <<columnVars, layoutVars, bufferVars, queueVars, extVars>>

\* the device finishes the commands fence f was placed after
GpuSignalOf(f) ==
    /\ fenceSt[f] = "pending"
    /\ delCount[f] = 0
    /\ fenceSt' = [fenceSt EXCEPT ![f] = "signalled"]
    /\ UNCHANGED <<working_section, locks, storage, fences, barrierDropped,
                   delCount, nextFence, pc_p, psection, frame, pc_c,
                   csection, crossed, aborted>>
    /\ UNCHANGED <<columnVars, layoutVars, bufferVars, queueVars, extVars>>

LoopGpuSignal == \E f \in 1..MaxFences : GpuSignalOf(f)

NextProgress ==
    \/ LoopProducerLoad
    \/ LoopProducerCheck
    \/ ProducerOp
    \/ LoopProducerAdvance
    \/ ConsumerLoad
    \/ ConsumerSyncBefore
    \/ LoopConsumerOp
    \/ ConsumerSyncAfter
    \/ LoopGpuSignal

\* the logic thread keeps calling Producer.cross, the render thread keeps
\* running Consumer.cross, and every fence placed is signalled in the end
FairProgress ==
    /\ WF_vars(LoopProducerLoad)
    /\ WF_vars(LoopProducerCheck)
    /\ WF_vars(ProducerOp)
    /\ WF_vars(LoopProducerAdvance)
    /\ WF_vars(ConsumerLoad)
    /\ WF_vars(ConsumerSyncBefore)
    /\ WF_vars(LoopConsumerOp)
    /\ WF_vars(ConsumerSyncAfter)
    /\ \A f \in 1..MaxFences : WF_vars(GpuSignalOf(f))

SpecProgress == Init /\ [][NextProgress]_vars /\ FairProgress

\* ================================================================ claims
\* the fence table holds an unsignalled fence for section s
UnsignalledFenceOn(s) ==
    /\ ~barrierDropped
    /\ fences[as_index(s)] # 0
    /\ fenceSt[fences[as_index(s)]] = "pending"

\* C1: Producer.cross never invokes write_fn on a section for which an
\* unsignalled fence is installed in the SyncBarrier at that moment.
C1_NoWriteUnderFence ==
    [][(pc_p = "check" /\ pc_p' = "write") => ~UnsignalledFenceOn(psection)]_vars

\* C2: write_fn on section n and read_fn on section c never execute at the
\* same time with n = c.
C2_NoAliasing ==
    ~(pc_p = "write" /\ pc_c = "op" /\ psection = csection)

\* the tag bit of section s is set in the lock word l
LockBitSet(l, s) == (l \div s) % 2 = 1

\* C3: when the producer tests the lock of next(current) and the bit is set,
\* write_fn is not invoked, current is not advanced, storage is untouched and
\* the call returns without retrying.
C3_Backpressure ==
    [][(pc_p = "check" /\ pc_p' # "check" /\ LockBitSet(locks, psection))
         => /\ pc_p' = "idle"
            /\ working_section' = working_section
            /\ storage' = storage
            /\ crossed' = crossed
            /\ frame' = frame]_vars

\* a producer call has been dropped on a lock and has returned
C3_Witness ==
    /\ aborted >= 1
    /\ pc_p = "idle"
    /\ crossed >= 1

\* the section current holds after n successful crosses
RotationAt(n) ==
    CASE n % 3 = 0 -> SPARE_BYTE
      [] n % 3 = 1 -> FRONT_BYTE
      [] n % 3 = 2 -> BACK_BYTE

\* C4: current starts at Spare and after n successful crosses is the n-th
\* section of Spare, Front, Back, Spare, ...; a successful cross writes the
\* section that follows current and publishes exactly that section; aborted
\* crosses do not move current.
C4_Rotation ==
    /\ working_section = RotationAt(crossed)
    /\ pc_p \in {"write", "advance"} => psection = RotationAt(crossed + 1)
    /\ pc_p = "advance" =>
         storage[CASE psection = FRONT_BYTE -> 0
                   [] psection = BACK_BYTE -> 1
                   [] psection = SPARE_BYTE -> 2] = frame

\* a full rotation has been made with one call dropped in between
C4_Witness ==
    /\ crossed = 3
    /\ aborted >= 1
    /\ working_section = SPARE_BYTE

\* C5: every fence installed via set is either still in the fence table or
\* has been deleted exactly once (by fetch or by drop).
C5_NoFenceLeak ==
    \A f \in 1..MaxFences :
        fenceSt[f] # "unused" =>
            IF ~barrierDropped /\ \E i \in 0..2 : fences[i] = f
            THEN delCount[f] = 0
            ELSE delCount[f] = 1

\* C6: in every state put/free return to, every handle returned by put and
\* not freed since dereferences through map into dense to the value it was
\* inserted with.
C6_HandleStability ==
    ~panicked =>
        \A p \in issued :
            /\ p[1] < Len(indices)
            /\ indices[p[1] + 1] < Len(contiguous)
            /\ contiguous[indices[p[1] + 1] + 1] = p[2]

\* an interior free has compacted the dense array under two live handles
C6_Witness ==
    /\ ~panicked
    /\ lastOp.op = "free"
    /\ lastOp.wasLive
    /\ ~lastOp.wasLast
    /\ Cardinality(issued) >= 2

\* the handles on the free list
FreeHandles == {free[k] : k \in 1..Len(free)}

\* P2, the round trip between map and owner
RoundTrip ==
    /\ \A h \in 1..(Len(indices) - 1) :
          h \notin FreeHandles =>
              /\ indices[h + 1] \in 1..(Len(owners) - 1)
              /\ owners[indices[h + 1] + 1] = h
    /\ \A i \in 1..(Len(contiguous) - 1) :
          /\ i < Len(owners)
          /\ owners[i + 1] < Len(indices)
          /\ indices[owners[i + 1] + 1] = i

\* C7: in every state put/free return to, owner[map[h]] = h for every live
\* handle h and map[owner[i]] = i for every dense index i >= 1.
C7_RoundTrip == ~panicked => RoundTrip

\* live handles and a free list coexist after a free
C7_Witness ==
    /\ ~panicked
    /\ lastOp.op = "free"
    /\ Len(free) >= 1
    /\ Len(contiguous) >= 3

\* C8: the handles in the free list are exactly the positive handles
\* h < map.len() with map[h] = 0.
C8_FreeListContainment ==
    ~panicked =>
        FreeHandles = {h \in 1..(Len(indices) - 1) : indices[h + 1] = 0}

\* C9: free of the handle owning the last dense slot, and free of the most
\* recently inserted handle, does not panic (no out-of-bounds access) and
\* leaves P2 holding.
C9_FreeLast ==
    (lastOp.op = "free" /\ (lastOp.wasLast \/ lastOp.wasRecent))
        => (~panicked /\ RoundTrip)

\* the last dense slot has been freed after an earlier free
C9_Witness ==
    /\ lastOp.op = "free"
    /\ lastOp.wasLast
    /\ Len(free) >= 2
    /\ Len(contiguous) >= 2

\* C10: after free(h) of a live handle h returns, map[h] = 0.
C10_FreedMapsToZero ==
    (lastOp.op = "free" /\ lastOp.wasLive /\ ~panicked)
        => indices[lastOp.h + 1] = 0

\* the column without its panic flag
ColumnData(c) == <<c.indices, c.contiguous, c.owners, c.free>>

\* C11: free(h) on a handle that is on the free list (already freed, not
\* re-issued) does not panic and leaves map, dense, owner and the free list
\* unchanged.
C11_IdempotentFree ==
    (lastOp.op = "free" /\ lastOp.wasFreed)
        => (~panicked /\ ColumnData(Column) = ColumnData(lastOp.before))

\* C12: in every state put/free return to, map[0] = 0, dense[0] and owner[0]
\* are the degenerate element, and put has not returned handle 0.
C12_DegenerateSlot ==
    ~panicked =>
        /\ indices[1] = 0
        /\ contiguous[1] = 0
        /\ owners[1] = 0
        /\ \A p \in issued : p[1] # 0
        /\ lastOp.op = "put" => lastOp.h # 0

\* handles have been recycled and compacted around the degenerate slot
C12_Witness ==
    /\ ~panicked
    /\ lastOp.op = "put"
    /\ lastOp.before.free # <<>>
    /\ Len(contiguous) >= 3

\* C13: put takes the most recently freed handle when the free list is not
\* empty, else the fresh handle map.len() (growing map by one); the value is
\* the last dense element, the handle the last owner entry, and map[handle]
\* the last dense index.
C13_PutAllocation ==
    lastOp.op = "put" =>
        LET b == lastOp.before
            h == lastOp.h
        IN /\ IF b.free # <<>>
              THEN /\ h = b.free[Len(b.free)]
                   /\ free = SubSeq(b.free, 1, Len(b.free) - 1)
                   /\ Len(indices) = Len(b.indices)
              ELSE /\ h = Len(b.indices)
                   /\ free = <<>>
                   /\ Len(indices) = Len(b.indices) + 1
           /\ \A k \in 0..(Len(b.indices) - 1) :
                  k # h => indices[k + 1] = b.indices[k + 1]
           /\ contiguous = Append(b.contiguous, lastOp.v)
           /\ owners = Append(b.owners, h)
           /\ indices[h + 1] = Len(contiguous) - 1
           /\ ~panicked

\* put has recycled a handle while an older freed handle stays on the list
C13_Witness ==
    /\ lastOp.op = "put"
    /\ Len(lastOp.before.free) >= 2
    /\ lastOp.h = lastOp.before.free[Len(lastOp.before.free)]

\* C14: free(0) and free(h) with h >= map.len() panic and leave the column
\* unchanged; free(h) with map[h] = 0 returns silently and changes nothing.
C14_FreePreconditions ==
    lastOp.op = "free" =>
        LET b == lastOp.before
            h == lastOp.h
        IN IF h = 0 \/ h >= Len(b.indices)
           THEN panicked /\ ColumnData(Column) = ColumnData(b)
           ELSE b.indices[h + 1] = 0 =>
                    (~panicked /\ ColumnData(Column) = ColumnData(b))

\* free has been called on a handle whose map entry is 0
C14_Witness ==
    /\ lastOp.op = "free"
    /\ lastOp.h > 0
    /\ lastOp.h < Len(lastOp.before.indices)
    /\ lastOp.before.indices[lastOp.h + 1] = 0
    /\ ~panicked

\* free(0) has panicked
C14_WitnessPanic ==
    /\ lastOp.op = "free"
    /\ lastOp.h = 0
    /\ panicked

\* C15: in every state, also the one a panicking free leaves behind, dense
\* and owner have the same length, and it is at least 1.
C15_ParallelLengths ==
    /\ Len(contiguous) = Len(owners)
    /\ Len(contiguous) >= 1

\* a free has panicked inside swap_remove
C15_Witness ==
    /\ panicked
    /\ lastOp.op = "free"
    /\ lastOp.h > 0
    /\ lastOp.h < Len(lastOp.before.indices)

\* the least multiple of A that is not below n
CeilAlign(n, A) == CHOOSE m \in n..(n + A - 1) : m % A = 0

\* C16: after any sequence of at most PARTS partition calls, whatever the
\* element sizes and counts, on a device with a power-of-two alignment A:
\* every part has the length size * count it was asked for, every offset is
\* a multiple of A, each part starts at the end of the part before it
\* rounded up to A (so no two parts overlap), every part ends at or before
\* len(), and len() is a multiple of A.
C16_LayoutInvariants ==
    ~layout.panicked =>
        /\ layout.head = Len(calls)
        /\ layout.head <= PARTS
        /\ \A i \in 0..(layout.head - 1) :
             /\ layout.lengths[i] = calls[i + 1][1] * calls[i + 1][2]
             /\ layout.offsets[i] % alignment = 0
             /\ layout.offsets[i] + layout.lengths[i]
                    <= layout_len(layout, alignment)
        /\ layout.head > 0 => layout.offsets[0] = 0
        /\ \A i \in 0..(layout.head - 2) :
             /\ layout.offsets[i + 1]
                    = CeilAlign(layout.offsets[i] + layout.lengths[i],
                                alignment)
             /\ layout.offsets[i + 1]
                    >= layout.offsets[i] + layout.lengths[i]
        /\ layout_len(layout, alignment) % alignment = 0

\* PARTS partition calls were made, one part had to be moved up to the
\* alignment and the last one ends short of len()
C16_Witness ==
    /\ ~layout.panicked
    /\ layout.head = PARTS
    /\ \E i \in 0..(PARTS - 2) :
         layout.offsets[i + 1] > layout.offsets[i] + layout.lengths[i]
    /\ layout_len(layout, alignment) > layout.last

\* the parts of scenario S3: u32 * 4, f32 * 8, Vec4 * 2, Vec4 * 2
S3Calls == <<<<4, 4>>, <<4, 8>>, <<16, 2>>, <<16, 2>>>>

\* what scenario S3 states of the offsets and lengths
S3Parts ==
    /\ ~layout.panicked
    /\ layout.offsets = (0 :> 0 @@ 1 :> 16 @@ 2 :> 48 @@ 3 :> 80)
    /\ layout.lengths = (0 :> 16 @@ 1 :> 32 @@ 2 :> 32 @@ 3 :> 32)
    /\ layout.last = 112

PartRange(section, part) ==
    LET start == section * section_length + offset_at(BufferLayout, part)
    IN {a \in 0..(BufferLen - 1) :
          a >= start /\ a < start + length_at(BufferLayout, part)}

\* every byte outside the set R of addresses is what it was before the last
\* buffer operation
UnchangedOutside(R) ==
    \A a \in (0..(BufferLen - 1)) \ R : memory[a] = bufOp.before[a]

\* C18: blit_part(section, part, src) is truncated at length(part): for any
\* src length and element size it stores only to addresses of the part
\* (section, part) and leaves every byte of every other part and section
\* as it was.
C18_BlitTruncated ==
    (bufOp.op = "blit_part" /\ ~bufPanicked) =>
        /\ written \subseteq PartRange(bufOp.section, bufOp.part)
        /\ UnchangedOutside(PartRange(bufOp.section, bufOp.part))

\* the addresses initialise_part is to initialise for part `part`: in each
\* of the three sections the part's range, for FillWith the whole elements
\* of size bytes that fit in it
InitRange(part, strategy, size) ==
    LET len == IF strategy = "Zero" THEN length_at(BufferLayout, part)
               ELSE (length_at(BufferLayout, part) \div size) * size
    IN {a \in 0..(BufferLen - 1) :
          \E sec \in 0..2 :
             /\ a >= sec * section_length + offset_at(BufferLayout, part)
             /\ a < sec * section_length + offset_at(BufferLayout, part)
                      + len}

\* C19: initialise_part(part, strategy) initialises in each of the three
\* sections exactly the range of the part, with zeros for Zero and with
\* length(part) / sizeof(T) factory values for FillWith, and stores nothing
\* outside these three ranges: not to another part, not past the end of
\* the buffer.
C19_InitialiseExact ==
    (bufOp.op = "initialise_part" /\ ~bufPanicked) =>
        /\ ~ub
        /\ written = InitRange(bufOp.part, bufOp.strategy, bufOp.size)
        /\ UnchangedOutside(InitRange(bufOp.part, bufOp.strategy,
                                      bufOp.size))
        /\ bufOp.strategy = "Zero" =>
             \A a \in InitRange(bufOp.part, "Zero", bufOp.size) :
                memory[a] = 0
        /\ bufOp.strategy = "FillWith" =>
             \A sec \in 0..2 :
                view_part(memory, sec, bufOp.part, bufOp.size)
                  = [k \in 1..(length_at(BufferLayout, bufOp.part)
                                 \div bufOp.size) |-> bufOp.data[1]]

\* the slice passed to the last blit_part fits the part it was copied to
SrcFits ==
    Len(bufOp.data) * bufOp.size <= length_at(BufferLayout, bufOp.part)

\* C20: after blit_part(section, part, src) with src fitting the part,
\* view_part(section, part) holds the elements of src, in order, at its
\* first len(src) positions, and view_part of every other (section, part)
\* pair, at every element size, is what it was before the blit.
C20_BlitViewRoundTrip ==
    (bufOp.op = "blit_part" /\ ~bufPanicked /\ SrcFits) =>
        /\ ~ub
        /\ \A k \in 1..Len(bufOp.data) :
              view_part(memory, bufOp.section, bufOp.part, bufOp.size)[k]
                = bufOp.data[k]
        /\ \A sec \in 0..2, part \in 0..(PARTS - 1), size \in ElemSizes :
              <<sec, part>> # <<bufOp.section, bufOp.part>> =>
                 view_part(memory, sec, part, size)
                   = view_part(bufOp.before, sec, part, size)

\* scenario S4: two 16-byte elements were copied to part 2 of section 1
C20_Witness ==
    /\ bufOp.op = "blit_part"
    /\ ~bufPanicked
    /\ bufOp.section = 1
    /\ bufOp.part = 2
    /\ bufOp.size = 16
    /\ Len(bufOp.data) = 2
    /\ SrcFits
    /\ memory # bufOp.before


\* the addresses of the first n bytes of section `section`
SectionPrefix(section, n) ==
    {a \in 0..(BufferLen - 1) :
       a >= section * section_length /\ a < section * section_length + n}

\* PartitionedTriBuffer::blit_section copies min(len(data), section_length)
\* bytes to the start of the section and nothing else
C21_PartitionedBlitSection ==
    (bufOp.op = "blit_section" /\ ~bufPanicked) =>
        LET n == Min(Len(bufOp.data), section_length)
        IN /\ ~ub
           /\ srcRead = n
           /\ written = SectionPrefix(bufOp.section, n)
           /\ \A k \in 1..n :
                memory[bufOp.section * section_length + k - 1]
                    = bufOp.data[k][1]
           /\ UnchangedOutside(SectionPrefix(bufOp.section, n))

\* TriBuffer::blit_section copies min(len(data), capacity) elements to the
\* start of the section's buffer and nothing else
C21_TriBlitSection ==
    (bufOp.op = "tri_blit_section" /\ ~bufPanicked) =>
        LET n == Min(Len(bufOp.data), TriCapacity)
        IN /\ ~ub
           /\ srcRead = n
           /\ written = {TriElem(bufOp.section, k) : k \in 1..n}
           /\ \A i \in 0..2, k \in 1..TriCapacity :
                triMem[i][k] = IF i = bufOp.section /\ k <= n
                               THEN bufOp.data[k]
                               ELSE bufOp.beforeTri[i][k]

\* C21: blit_section copies min(len(data), capacity) units: it never reads
\* past the end of data and never writes past the section, for
\* PartitionedTriBuffer (bytes, capacity the section length) and for
\* TriBuffer (elements, capacity the buffer's capacity).
C21_BlitSectionBounded ==
    /\ C21_PartitionedBlitSection
    /\ C21_TriBlitSection


\* the operations that take a section
SectionOps ==
    {"bind_shader_storage", "view_section", "view_section_mut", "view_part",
     "view_part_mut", "blit_section", "blit_part", "tri_bind_shader_storage",
     "tri_view_section", "tri_view_section_mut", "tri_blit_section"}

\* the operations that take a part
PartOps == {"view_part", "view_part_mut", "blit_part", "initialise_part"}

\* the last operation was handed a section or a part that does not exist
OutOfRange ==
    \/ bufOp.op \in SectionOps /\ bufOp.section >= 3
    \/ bufOp.op \in PartOps /\ bufOp.part >= PARTS

\* the last operation touched nothing: no byte or element of either buffer
\* changed, nothing was stored, nothing was read from the source, no view
\* was handed out and no bind was issued
Untouched ==
    /\ memory = bufOp.before
    /\ triMem = bufOp.beforeTri
    /\ written = {}
    /\ srcRead = 0
    /\ returned = <<>>
    /\ binds = <<>>
    /\ ~ub

\* C22: every operation of PartitionedTriBuffer and TriBuffer that takes a
\* section panics when section >= 3, and every operation that takes a part
\* panics when part >= PARTS, before any buffer memory is read or written.
C22_OutOfRangePanics == OutOfRange => (bufPanicked /\ Untouched)

\* a view_part_mut of a part one past the last, in a section that exists,
\* has panicked
C22_Witness ==
    /\ bufOp.op = "view_part_mut"
    /\ bufOp.section < 3
    /\ bufOp.part = PARTS
    /\ bufPanicked


\* the parts of the bound buffer's layout that have a shader binding
BoundParts == {p \in 0..(PARTS - 1) : bufOp.layout.shader[p] # U32_MAX}

\* the range bind the claim names for part p
RangeBindOf(p) ==
    [binding |-> bufOp.layout.shader[p],
     offset |-> bufOp.section * layout_len(bufOp.layout, alignment)
                    + bufOp.layout.offsets[p],
     length |-> bufOp.layout.lengths[p]]

\* C23: bind_shader_storage(section) issues for each part with a shader
\* binding, and for no other part, exactly one range bind, with offset
\* section * section_length + offset(part) and length length(part); every
\* bound offset is a multiple of the device's alignment and every bound
\* range lies inside the section.
C23_BindRanges ==
    (bufOp.op = "bind_shader_storage" /\ ~bufPanicked) =>
        LET len == layout_len(bufOp.layout, alignment)
        IN /\ Len(binds) = Cardinality(BoundParts)
           /\ \A p \in BoundParts :
                Cardinality({i \in 1..Len(binds) :
                               binds[i] = RangeBindOf(p)}) = 1
           /\ \A i \in 1..Len(binds) :
                /\ binds[i].offset % alignment = 0
                /\ binds[i].offset >= bufOp.section * len
                /\ binds[i].offset + binds[i].length
                       <= (bufOp.section + 1) * len

\* section 2 of a buffer of four parts, the second and the fourth with a
\* binding, was bound
C23_Witness ==
    /\ bufOp.op = "bind_shader_storage"
    /\ ~bufPanicked
    /\ bufOp.section = 2
    /\ bufOp.layout.head = PARTS
    /\ BoundParts = {1, 3}
    /\ Len(binds) = 2


\* a step of barrier.fetch: the consumer leaves one of its two syncs
FetchStep == pc_c \in {"sync1", "sync2"} /\ pc_c' # pc_c

\* the tag fetch ORs into the byte for slot i
TagOfSlot(i) ==
    CASE i = 0 -> FRONT_BYTE
      [] i = 1 -> BACK_BYTE
      [] i = 2 -> SPARE_BYTE

\* C24: SyncBarrier.fetch deletes each signalled fence and clears its slot,
\* leaves each unsignalled fence in its slot, and stores a lock word that
\* replaces the previous one and has exactly the tag bits of the sections
\* whose fence is still unsignalled: right after fetch has_lock(s) is true
\* iff fences[s] is present.
C24_Fetch ==
    [][FetchStep =>
         /\ \A i \in 0..2 :
              IF fences[i] = 0 THEN fences'[i] = 0
              ELSE IF fenceSt[fences[i]] = "signalled"
              THEN /\ fences'[i] = 0
                   /\ delCount'[fences[i]] = delCount[fences[i]] + 1
              ELSE /\ fences'[i] = fences[i]
                   /\ delCount'[fences[i]] = delCount[fences[i]]
         /\ locks' = (IF fences'[0] # 0 THEN FRONT_BYTE ELSE 0)
                       + (IF fences'[1] # 0 THEN BACK_BYTE ELSE 0)
                       + (IF fences'[2] # 0 THEN SPARE_BYTE ELSE 0)
         /\ \A i \in 0..2 :
              LockBitSet(locks', TagOfSlot(i)) <=> fences'[i] # 0]_vars

\* a fetch has deleted a signalled fence and another fence, still pending,
\* is in its slot with its lock bit set
C24_Witness ==
    /\ pc_c = "idle"
    /\ ~barrierDropped
    /\ \E f \in 1..MaxFences : fenceSt[f] = "signalled" /\ delCount[f] = 1
    /\ \E i \in 0..2 :
         /\ fences[i] # 0
         /\ fenceSt[fences[i]] = "pending"
         /\ LockBitSet(locks, TagOfSlot(i))

\* a fence sits in the barrier and no fetch has published its lock bit yet
FenceAwaitingFetch ==
    /\ ~barrierDropped
    /\ \E i \in 0..2 : fences[i] # 0 /\ ~LockBitSet(locks, TagOfSlot(i))

\* C25: barrier.fetch runs between the installation of a fence and the
\* next producer arrival: no Producer.cross evaluates has_lock while a
\* fence installed by barrier.set awaits the fetch that publishes its bit.
C25_FetchBeforeProducer ==
    [][(pc_p = "check" /\ pc_p' # "check") => ~FenceAwaitingFetch]_vars


\* C27: every Renderer draw that crosses the boundary and dispatches the
\* commands reading section S installs a fence for S with barrier.set after
\* the dispatch and before the second fetch of Consumer.cross.
C27_FencePlaced ==
    [][(pc_c = "op" /\ pc_c' = "sync2") =>
         /\ fences'[as_index(csection)] # 0
         /\ fences'[as_index(csection)] # fences[as_index(csection)]]_vars


\* the consumer loads current: let section = current_section()
LoadStep == pc_c = "idle" /\ pc_c' = "sync1"

\* section index i holds a snapshot that a successful Producer.cross wrote
\* to the end and published (the section a producer has written but not yet
\* advanced to is not one)
Finished(i) ==
    /\ storage[i] # 0
    /\ ~(pc_p = "advance" /\ as_index(psection) = i)

\* section index i holds the most recently published snapshot
LatestPublished(i) ==
    /\ Finished(i)
    /\ \A j \in 0..2 : Finished(j) => storage[j] <= storage[i]

\* C26 as stated: whenever Consumer.cross runs, the section handed to
\* read_fn is one that a successful Producer.cross has completely written
\* and published, the one most recently published when the consumer loaded
\* current; the consumer is never handed a section no producer has finished
\* writing.
C26_LatestSnapshot ==
    [][LoadStep => LatestPublished(as_index(csection'))]_vars

\* C26, amended: once a Producer.cross has succeeded, the section handed to
\* read_fn is the one most recently published when the consumer loaded
\* current. (Before the first successful cross the consumer is handed the
\* initial section, Spare, which no producer has written.)
C26_LatestSnapshotAfterFirstCross ==
    [][(LoadStep /\ crossed >= 1) =>
         LatestPublished(as_index(csection'))]_vars

\* the consumer has loaded Back, the section published by the second
\* successful cross, while the producer is writing the third
C26_Witness ==
    /\ pc_c = "sync1"
    /\ crossed = 2
    /\ csection = Back
    /\ pc_p = "advance"
    /\ LatestPublished(as_index(Back))

\* the section after byte in the rotation Spare, Front, Back
StepOf(byte) ==
    CASE byte = SPARE_BYTE -> FRONT_BYTE
      [] byte = FRONT_BYTE -> BACK_BYTE
      [] byte = BACK_BYTE -> SPARE_BYTE

\* C28: Consumer.cross never changes current and never takes a lock by
\* itself: in any interleaving current changes only by the single-step
\* advance of a successful Producer.cross, and the lock word changes only
\* through barrier.fetch.
C28_FrameEffects ==
    [][/\ (pc_c' # pc_c) => working_section' = working_section
       /\ (pc_c = "op" /\ pc_c' # pc_c) => locks' = locks
       /\ (working_section' # working_section) =>
            /\ pc_p = "advance" /\ pc_p' = "idle"
            /\ crossed' = crossed + 1
            /\ working_section' = StepOf(working_section)
       /\ (locks' # locks) => FetchStep]_vars

\* current has been advanced and a fetch has published a lock, and the
\* consumer is back from its cross
C28_Witness ==
    /\ crossed >= 1
    /\ working_section # SPARE_BYTE
    /\ locks # 0
    /\ pc_c = "idle"


\* C29: upload on a queue of n commands with upload head 0 and capacity c
\* copies the first min(n, c) queued commands, in order, into
\* buffer[0..min(n, c)] and returns Ok when n <= c and Err(n - c) otherwise;
\* after clear, upload copies nothing and returns Ok.
C29_UploadFromZero ==
    (qOp.op = "upload" /\ qOp.head = 0) =>
        LET n == Len(qOp.queue)
            c == fixed_buffer_len
            m == IF n < c THEN n ELSE c
        IN /\ ~qPanicked
           /\ qOp.copied = m
           /\ \A k \in 1..Len(cmdBuffer) :
                cmdBuffer[k] = IF k <= m THEN qOp.queue[k]
                               ELSE qOp.buffer[k]
           /\ qOp.ret = IF n <= c THEN Ok ELSE Err(n - c)
           /\ qOp.prev = "clear" =>
                /\ qOp.copied = 0
                /\ cmdBuffer = qOp.buffer
                /\ qOp.ret = Ok

\* capacity 4, six commands pushed, upload: the first four are in the
\* buffer and Err(2) is returned
C29_Witness ==
    /\ qOp.op = "upload"
    /\ qOp.head = 0
    /\ fixed_buffer_len = 4
    /\ qOp.queue = <<1, 2, 3, 4, 5, 6>>
    /\ cmdBuffer = <<1, 2, 3, 4>>
    /\ qOp.ret = Err(2)

\* the commands copied by the upload calls k..Len(uploads) made in a row,
\* in the order they were copied
RECURSIVE CopiedFrom(_)
CopiedFrom(k) ==
    IF k > Len(uploads) THEN <<>>
    ELSE uploads[k].copied \o CopiedFrom(k + 1)

\* C30: upload calls made in a row, with no push or clear in between,
\* resume where the previous call stopped: each call copies the next up to
\* capacity not-yet-uploaded commands to the start of the buffer, every
\* queued command is uploaded exactly once, the Err count returned
\* strictly decreases and the last call returns Ok.
C30_RepeatedUpload ==
    (uploads # <<>> /\ ~qPanicked /\ uploads[1].head <= Len(queue)) =>
        LET n == Len(queue)
            c == fixed_buffer_len
        IN /\ \A k \in 2..Len(uploads) :
                LET h == uploads[k - 1].head + Len(uploads[k - 1].copied)
                    m == IF n - h < c THEN n - h ELSE c
                IN /\ uploads[k].head = h
                   /\ uploads[k].copied = SubSeq(queue, h + 1, h + m)
                   /\ uploads[k].ret = IF h + m < n THEN Err(n - h - m)
                                       ELSE Ok
                   /\ (~uploads[k - 1].ret.ok /\ ~uploads[k].ret.ok) =>
                        uploads[k].ret.err < uploads[k - 1].ret.err
           /\ (uploads[1].head = 0 /\ uploads[Len(uploads)].ret.ok) =>
                CopiedFrom(1) = queue
           /\ Len(uploads) * c >= n - uploads[1].head =>
                uploads[Len(uploads)].ret.ok


\* C31: after State.upload returns the command queue is empty and its
\* upload head is 0, whether Producer.cross ran the write or dropped the
\* frame on a lock, and whether or not the upload overflowed; no command
\* staged for one frame is carried to the next.
C31_NoReplay ==
    /\ (pc_s = "idle" /\ qOp.op # "none") =>
          (queue = <<>> /\ upload_head = 0 /\ ~qPanicked)
    /\ (pc_s = "cross" /\ qOp.op = "push") =>
          (qOp.queue = <<>> /\ qOp.head = 0 /\ Len(queue) = qOp.copied)
    /\ (pc_s # "idle" /\ qOp.op = "upload") =>
          (qOp.prev = "push" /\ qOp.head = 0 /\ queue = qOp.queue)

\* State.upload has returned from a frame that staged more commands than
\* the buffer holds, after at least one frame was dropped on the lock and
\* one was written
C31_Witness ==
    /\ pc_s = "idle"
    /\ qOp.op = "clear"
    /\ Len(qOp.queue) > fixed_buffer_len
    /\ aborted >= 1
    /\ crossed >= 1

\* C32: Producer::write_at on Contiguous storage panics if and only if
\* data.len() exceeds the capacity; a write with data.len() <= capacity does
\* not panic, copies the data into the producer's write buffer without
\* storing past its capacity, and sets the shared length to data.len().
C32_WriteAtPanics ==
    tbOp.op = "write_at" =>
        /\ tbOp.panicked <=> Len(tbOp.data) > ContCapacity
        /\ (Len(tbOp.data) <= ContCapacity /\ tbOp.copied) =>
              /\ ptr[tbOp.buf_idx] =
                    copy_into(tbOp.before[tbOp.buf_idx], tbOp.data,
                              tbOp.offset)
              /\ ~tbUb
        /\ (Len(tbOp.data) <= ContCapacity /\ tbOp.done) =>
              tb_length = Len(tbOp.data)

\* C39: under any interleaving of the producer's writes and the consumer's
\* reads the write index, the read index and the shared intermediate index
\* are a permutation of {0, 1, 2}, and the producer never stores into the
\* buffer whose slice the consumer holds.
C39_Permutation == {write_idx, read_idx, intermediate_idx} = {0, 1, 2}
C39_IndexExchange ==
    /\ C39_Permutation
    /\ (slice # <<>> /\ pc_w # "idle") => slice[1].idx # write_idx
    /\ ~clobbered

\* the populated cells other than `cell` within the per-axis ranges
Abs(n) == IF n < 0 THEN -n ELSE n
InRange(m, cell, rx, ry, rz) ==
    {c \in DOMAIN m \ {cell} :
        /\ Abs(c.x - cell.x) <= rx
        /\ Abs(c.y - cell.y) <= ry
        /\ Abs(c.z - cell.z) <= rz}

\* d is nearer to cell than c by the sum, by the largest and by the sum of
\* squares of the per-axis distances
Max3(a, b, c) ==
    IF a >= b /\ a >= c THEN a ELSE IF b >= c THEN b ELSE c
StrictlyNearer(d, c, cell) ==
    LET dx == Abs(d.x - cell.x) dy == Abs(d.y - cell.y)
        dz == Abs(d.z - cell.z)
        ex == Abs(c.x - cell.x) ey == Abs(c.y - cell.y)
        ez == Abs(c.z - cell.z)
    IN  /\ dx + dy + dz < ex + ey + ez
        /\ Max3(dx, dy, dz) < Max3(ex, ey, ez)
        /\ dx * dx + dy * dy + dz * dz < ex * ex + ey * ey + ez * ez

C33_Found ==
    InRange(hashOp.map, hashOp.cell, hashOp.rx, hashOp.ry, hashOp.rz)

\* C33: nearest_cell(cell, rx, ry, rz) returns Ok with the populated cell
\* nearest to cell, other than cell itself, within the per-axis ranges,
\* together with its content, and Err only when no other populated cell
\* lies within range.
C33_NearestCell ==
    hashOp.op = "nearest_cell" =>
        /\ ~hashOp.ret.ok <=> C33_Found = {}
        /\ hashOp.ret.ok =>
              /\ hashOp.ret.cell \in C33_Found
              /\ hashOp.ret.element = hashOp.map[hashOp.ret.cell]
              /\ \A d \in C33_Found :
                    ~StrictlyNearer(d, hashOp.ret.cell, hashOp.cell)

\* the part of C33 that does not depend on which cell in range is returned
C33_SomeCellInRange ==
    hashOp.op = "nearest_cell" =>
        /\ ~hashOp.ret.ok <=> C33_Found = {}
        /\ hashOp.ret.ok =>
              /\ hashOp.ret.cell \in C33_Found
              /\ hashOp.ret.element = hashOp.map[hashOp.ret.cell]

\* the last operation was a free, on a column in which every live handle
\* dereferenced to its own value through a dense slot of its own, of a live
\* handle whose dense slot was not the last
C34_WellFormed(c) ==
    /\ lastOp.h > 0 /\ lastOp.h < Len(c.indices)
    /\ At(c.indices, lastOp.h) > 0
    /\ At(c.indices, lastOp.h) < Len(c.contiguous)
    /\ Intact(c, issued)
    /\ \A p \in issued : At(c.indices, p[1]) # At(c.indices, lastOp.h)
C34_FreedInside ==
    /\ variant \in {"ArrayColumn", "RowTable"}
    /\ lastOp.op = "free" /\ lastOp.wasLive /\ ~lastOp.wasLast
    /\ C34_WellFormed(lastOp.before)

\* the handle of the element that was in the last dense slot before the free
C34_Moved ==
    {p \in issued :
        At(lastOp.before.indices, p[1]) = Len(lastOp.before.contiguous) - 1}

\* C34: ArrayColumn::free and the free of table_spec! swap-remove without
\* patching the map: after free(h) of a live handle whose dense slot is not
\* the last, the handle of the element moved into that slot still maps to
\* its old dense index, so it does not dereference to its own value (or
\* points out of range).
C34_SwapRemoveWithoutPatch ==
    C34_FreedInside =>
        /\ C34_Moved # {}
        /\ \A p \in C34_Moved :
              /\ At(indices, p[1]) = At(lastOp.before.indices, p[1])
              /\ \/ At(indices, p[1]) >= Len(contiguous)
                 \/ At(contiguous, At(indices, p[1])) # p[2]
              /\ At(contiguous, At(lastOp.before.indices, lastOp.h)) = p[2]

\* a free of a RowTable returned, and one of an ArrayColumn was made
C34_Witness ==
    C34_FreedInside /\ variant = "RowTable" /\ ~panicked
C34_WitnessArray ==
    C34_FreedInside /\ variant = "ArrayColumn"

\* the handles put returned and free has not been given since
C35_Live == {p[1] : p \in issued}

\* C35: in every state reachable by put/free the free list holds no handle
\* twice and no live handle, so put never returns a handle that is live and
\* two live elements never share a handle.
C35_HandleUniqueness ==
    variant = "ParallelIndexArrayColumn" =>
        /\ \A j, k \in 1..Len(free) : free[j] = free[k] => j = k
        /\ \A k \in 1..Len(free) : free[k] \notin C35_Live
        /\ \A p, q \in issued : p[1] = q[1] => p = q
        /\ Cardinality(issued) = Len(contiguous) - 1
        /\ lastOp.op = "put" =>
              /\ lastOp.h > 0
              /\ \A i \in 1..Len(lastOp.before.owners) - 1 :
                    At(lastOp.before.owners, i) # lastOp.h

\* a put took a handle from a free list of two while another handle was live
C35_Witness ==
    /\ variant = "ParallelIndexArrayColumn" /\ ~panicked
    /\ lastOp.op = "put"
    /\ Len(lastOp.before.free) >= 2
    /\ Cardinality(issued) >= 2

\* C36: in every state reachable by put/free, dense.len() + free.len() ==
\* map.len(), and map.len() never decreases.
C36_SlotAccounting ==
    variant = "ParallelIndexArrayColumn" =>
        /\ Len(contiguous) + Len(free) = Len(indices)
        /\ Len(owners) = Len(contiguous)
        /\ lastOp.op \in {"put", "free"} =>
              Len(indices) >= Len(lastOp.before.indices)

\* a free returned on a column with a live handle and two freed ones
C36_Witness ==
    /\ variant = "ParallelIndexArrayColumn" /\ ~panicked
    /\ lastOp.op = "free" /\ lastOp.wasLive
    /\ Len(free) >= 2 /\ Len(contiguous) >= 2

\* C38: GpuCommandQueue keeps upload_head <= queue.len() in every state
\* reachable through push, pop, upload and clear, so count - head in upload
\* never underflows and upload never indexes the queue out of range.
C38_HeadWithinQueue ==
    /\ upload_head <= Len(queue)
    /\ qOp.op = "upload" => (qOp.head <= Len(qOp.queue) /\ ~qPanicked)

\* C37: if the render thread keeps running Consumer.cross and every fence
\* placed is signalled in the end, a producer that keeps calling
\* Producer.cross completes a successful cross and advances current again
\* and again: no lock bit blocks it for ever.
C37_ProducerProgress == []<>(pc_p = "advance")

\* a cross goes through after an earlier call found the lock
C37_Witness == pc_p = "advance" /\ aborted >= 1

====
